---- MODULE Spec2Model ----
(***************************************************************************)
(* State-machine model of the sudoku-solver crate: the AvailSet bit set    *)
(* and its iterator, the AvailCounter, the RemainingTracker, the           *)
(* DeductiveReducer with its ReduceQueue, and the branching driver         *)
(* Board::solve.                                                           *)
(***************************************************************************)
EXTENDS Integers, Sequences, FiniteSets, TLC

\* ------------------------------------------------------------------------
\* Program constants.
\* ------------------------------------------------------------------------
ValMin == 1
ValMax == 9
RowWidth == 9
SectorWidth == 3
SectorHeight == 3
AvailSetAll == 511
\* The set of the test availset_iter_size, 0b010_010_110.
IterSizeTestSet == 150
U16Max == 65535

\* ReduceStep variants, in declaration order (the derived Ord compares the
\* variant first and the target second).
CoordSingularized == 0
RowValsSingularized == 1
ColValsSingularized == 2
SecValsSingularized == 3
SecRowTripleized == 4
SecColTripleized == 5
RowOnlySec == 6
SecOnlyRow == 7
ColOnlySec == 8
SecOnlyCol == 9

\* ------------------------------------------------------------------------
\* Bounds of the model.
\* ------------------------------------------------------------------------
\* Cells 0..MaxPinCell of a base board are the ones the input family varies.
MaxPinCell == 1
\* The per-instance random state of a HashSet is drawn from 0..MaxHashSeed.
MaxHashSeed == 1
\* The cells the second family of boards varies hold NoVal..MaxTripleVal.
MaxTripleVal == 2
\* The counters avail is called on hold counts 0..MaxCount.
MaxCount == 2

\* ------------------------------------------------------------------------
\* The state of the program.
\* ------------------------------------------------------------------------
VARIABLES
    input,      \* self, the board solve is called on
    stack,      \* the driver's stack of (depth, tracker), top last
    pc,         \* "driver", "reduce", "done" or "panic"
    depth,      \* depth of the tracker being reduced
    remaining,  \* DeductiveReducer.remaining
    queue,      \* DeductiveReducer.queue
    hashSeed,   \* the RandomState of the queue's HashSet
    step,       \* the step popped last
    calls,      \* the calls the running step handler has still to make, from the
                \* first that acts
    status,     \* outcome of the reducer so far
    reason,     \* why the reducer stopped
    result,     \* what solve returned
    log,        \* the trackers visited and the steps popped, in order
    atStart,    \* remaining as the running handler found it: its locals (val,
                \* singles, values, uniques) are read off it
    tracer,     \* DeductiveReducer.tracer
    run,        \* which of two successive calls of solve is running
    log1,       \* the log of the first call
    result1,    \* the result of the first call
    called,     \* the Board predicate called last, "none" before any
    ret,        \* what it returned
    arg,        \* the arguments of the call made last
    out,        \* the value it returned, when that is no boolean
    iter,       \* an AvailSetIter: its set and the range vals still holds
    yielded,    \* the set of the values the iterator has yielded
    item,       \* the last call on the iterator and what it returned
    completions \* valid completions of input found by a search that is
                \* independent of the solver, for the runs that compare with them

solveVars ==
    <<input, stack, pc, depth, remaining, queue, hashSeed, step, calls, status, reason,
      result, log, atStart, tracer>>
twiceVars == <<run, log1, result1>>
boardVars == <<called, ret, arg, out>>
iterVars == <<iter, yielded, item>>
refVars == <<completions>>
vars == <<solveVars, twiceVars, boardVars, iterVars, refVars>>

\* ------------------------------------------------------------------------
\* Val and the FixedSizeIndex key types, all handled by flat index.
\* ------------------------------------------------------------------------
Vals == ValMin..ValMax
ValIdx(v) == v - 1
ValFromIdx(i) == i + 1
ValNumIndexes == ValMax - ValMin + 1

ColNumIndexes == RowWidth
RowNumIndexes == RowWidth
SectorsAcross == RowWidth \div SectorWidth
SectorsDown == RowWidth \div SectorHeight
NumSectors == SectorsAcross * SectorsDown
CoordNumIndexes == RowWidth * RowWidth
SectorRowNumIndexes == NumSectors * SectorHeight
SectorColNumIndexes == NumSectors * SectorWidth

Coords == 0..(CoordNumIndexes - 1)
Rows == 0..(RowNumIndexes - 1)
Cols == 0..(ColNumIndexes - 1)
Sectors == 0..(NumSectors - 1)
SectorRows == 0..(SectorRowNumIndexes - 1)
SectorCols == 0..(SectorColNumIndexes - 1)

\* Coord::idx and the accessors of a coordinate.
CoordIdx(r, c) == r * ColNumIndexes + c
CoordRow(coord) == coord \div ColNumIndexes
CoordCol(coord) == coord % ColNumIndexes
RowSectorBase(r) == r - (r % SectorHeight)
ColSectorBase(c) == c - (c % SectorWidth)

\* Sector::idx of the sector with the given base row and base column.
SectorIdx(baseRow, baseCol) == baseRow + (baseCol \div SectorWidth)
SectorBaseRow(s) == s - (s % SectorsAcross)
SectorBaseCol(s) == (s % SectorsAcross) * SectorWidth
\* SectorRow::idx and SectorCol::idx.
SectorRowIdx(r, baseCol) == r * SectorsAcross + (baseCol \div SectorWidth)
SectorRowRow(sr) == sr \div SectorsAcross
SectorRowBaseCol(sr) == (sr % SectorsAcross) * SectorWidth
SectorColIdx(s, relCol) == s * SectorWidth + relCol
SectorColSector(sc) == sc \div SectorWidth
SectorColRelCol(sc) == sc % SectorWidth
SectorColCol(sc) == SectorBaseCol(SectorColSector(sc)) + SectorColRelCol(sc)

\* ZoneContaining::containing_zone for each zone type.
CoordSector(coord) == SectorIdx(RowSectorBase(CoordRow(coord)), ColSectorBase(CoordCol(coord)))
CoordSectorRow(coord) == SectorRowIdx(CoordRow(coord), ColSectorBase(CoordCol(coord)))
CoordSectorCol(coord) ==
    SectorColIdx(CoordSector(coord), CoordCol(coord) - SectorBaseCol(CoordSector(coord)))

\* FixedSizeIndexable::get_at_index, collected by Zone::coords in index order.
RowCoords(r) == [i \in 1..RowWidth |-> CoordIdx(r, i - 1)]
ColCoords(c) == [i \in 1..RowWidth |-> CoordIdx(i - 1, c)]
SectorCoords(s) ==
    [i \in 1..(SectorWidth * SectorHeight) |->
        CoordIdx(SectorBaseRow(s) + ((i - 1) \div SectorWidth),
                 SectorBaseCol(s) + ((i - 1) % SectorWidth))]
SectorRowCoords(sr) ==
    [i \in 1..SectorWidth |-> CoordIdx(SectorRowRow(sr), SectorRowBaseCol(sr) + (i - 1))]
SectorColCoords(sc) ==
    [i \in 1..SectorHeight |->
        CoordIdx(SectorBaseRow(SectorColSector(sc)) + (i - 1), SectorColCol(sc))]

\* Sequence helpers.
RECURSIVE SelectNeq(_, _)
SelectNeq(seq, skip) ==
    IF seq = <<>> THEN <<>>
    ELSE IF Head(seq) = skip THEN SelectNeq(Tail(seq), skip)
    ELSE <<Head(seq)>> \o SelectNeq(Tail(seq), skip)
Range(seq) == {seq[i] : i \in DOMAIN seq}

\* Row::sector_rows, Sector::rows, Col::sector_cols, Sector::cols.
RowSectorRows(r) == [i \in 1..SectorsAcross |-> SectorRowIdx(r, (i - 1) * SectorWidth)]
SectorRowsOf(s) ==
    [i \in 1..SectorHeight |-> SectorRowIdx(SectorBaseRow(s) + (i - 1), SectorBaseCol(s))]
ColSectorCols(c) ==
    [i \in 1..SectorsDown |-> CoordSectorCol(CoordIdx((i - 1) * SectorHeight, c))]
SectorColsOf(s) == [i \in 1..SectorWidth |-> SectorColIdx(s, i - 1)]

\* SecRowSecCol::line, ::sector, ::line_neighbors and ::sec_neighbors.
SectorRowLine(sr) == SectorRowRow(sr)
SectorRowSector(sr) == CoordSector(CoordIdx(SectorRowRow(sr), SectorRowBaseCol(sr)))
SectorRowRowNeighbors(sr) == SelectNeq(RowSectorRows(SectorRowRow(sr)), sr)
SectorRowSectorNeighbors(sr) == SelectNeq(SectorRowsOf(SectorRowSector(sr)), sr)
SectorColLine(sc) == SectorColCol(sc)
SectorColColNeighbors(sc) == SelectNeq(ColSectorCols(SectorColCol(sc)), sc)
SectorColSectorNeighbors(sc) == SelectNeq(SectorColsOf(SectorColSector(sc)), sc)

\* Coord::neighbors: the row, then the column, then the sector cells in
\* neither, with the coordinate itself filtered out.
\* Variant of the sector filter that only drops the cells of the row.
RECURSIVE SelectOutsideRow(_, _)
SelectOutsideRow(seq, coord) ==
    IF seq = <<>> THEN <<>>
    ELSE IF CoordRow(Head(seq)) # CoordRow(coord)
         THEN <<Head(seq)>> \o SelectOutsideRow(Tail(seq), coord)
         ELSE SelectOutsideRow(Tail(seq), coord)
RECURSIVE SelectOutside(_, _)
SelectOutside(seq, coord) ==
    IF seq = <<>> THEN <<>>
    ELSE IF CoordRow(Head(seq)) # CoordRow(coord) /\ CoordCol(Head(seq)) # CoordCol(coord)
         THEN <<Head(seq)>> \o SelectOutside(Tail(seq), coord)
         ELSE SelectOutside(Tail(seq), coord)
\* Variant of CoordNeighbors that also lists the cell itself.
CoordNeighborsWithSelf(coord) ==
    RowCoords(CoordRow(coord)) \o ColCoords(CoordCol(coord))
        \o SelectOutside(SectorCoords(CoordSector(coord)), coord)
CoordNeighbors(coord) ==
    SelectNeq(RowCoords(CoordRow(coord)) \o ColCoords(CoordCol(coord))
                  \o SelectOutside(SectorCoords(CoordSector(coord)), coord),
              coord)
NeighborsOf == [coord \in Coords |-> CoordNeighbors(coord)]

\* The key types as the structs they are: Val, Row and Col wrap a u8, the
\* others hold the fields of their struct.  NumIndexes, idx and from_idx of
\* FixedSizeIndex, by the name of the type; values() maps from_idx over
\* 0..NUM_INDEXES.
KeyTypes == {"Val", "Row", "Col", "Sector", "SectorRow", "SectorCol", "Coord"}
ValNew(v) == [val |-> v]
RowNew(r) == [inner |-> r]
ColNew(c) == [inner |-> c]
\* Variant of Sector::from_idx whose base row is the band of the sector.
SectorFromIdxBand(i) ==
    [base_row |-> RowNew(i \div SectorsAcross), base_col |-> ColNew(SectorBaseCol(i))]
SectorFromIdx(i) ==
    [base_row |-> RowNew(SectorBaseRow(i)), base_col |-> ColNew(SectorBaseCol(i))]
NumIndexes(type) ==
    CASE type = "Val" -> ValNumIndexes
      [] type = "Row" -> RowNumIndexes
      [] type = "Col" -> ColNumIndexes
      [] type = "Sector" -> NumSectors
      [] type = "SectorRow" -> SectorRowNumIndexes
      [] type = "SectorCol" -> SectorColNumIndexes
      [] type = "Coord" -> CoordNumIndexes
KeyIdx(type, key) ==
    CASE type = "Val" -> ValIdx(key.val)
      [] type = "Row" -> key.inner
      [] type = "Col" -> key.inner
      [] type = "Sector" -> SectorIdx(key.base_row.inner, key.base_col.inner)
      [] type = "SectorRow" -> SectorRowIdx(key.row.inner, key.base_col.inner)
      [] type = "SectorCol" ->
            SectorColIdx(SectorIdx(key.sector.base_row.inner, key.sector.base_col.inner),
                         key.rel_col)
      [] type = "Coord" -> CoordIdx(key.row.inner, key.col.inner)
KeyFromIdx(type, i) ==
    CASE type = "Val" -> ValNew(ValFromIdx(i))
      [] type = "Row" -> RowNew(i)
      [] type = "Col" -> ColNew(i)
      [] type = "Sector" -> SectorFromIdx(i)
      [] type = "SectorRow" ->
            [row |-> RowNew(SectorRowRow(i)), base_col |-> ColNew(SectorRowBaseCol(i))]
      [] type = "SectorCol" ->
            [sector |-> SectorFromIdx(SectorColSector(i)), rel_col |-> SectorColRelCol(i)]
      [] type = "Coord" -> [row |-> RowNew(CoordRow(i)), col |-> ColNew(CoordCol(i))]
Values(type) == [k \in 1..NumIndexes(type) |-> KeyFromIdx(type, k - 1)]

\* ------------------------------------------------------------------------
\* AvailSet: a u16 bit mask, bit ValIdx(v) set when v is in the set.
\* ------------------------------------------------------------------------
RECURSIVE BitAnd(_, _)
BitAnd(a, b) ==
    IF a = 0 \/ b = 0 THEN 0
    ELSE 2 * BitAnd(a \div 2, b \div 2) + (a % 2) * (b % 2)
BitOr(a, b) == a + b - BitAnd(a, b)
BitNot16(a) == U16Max - a
RECURSIVE CountOnes(_)
CountOnes(a) == IF a = 0 THEN 0 ELSE (a % 2) + CountOnes(a \div 2)
RECURSIVE TrailingZeros(_)
TrailingZeros(a) ==
    IF a = 0 THEN 16 ELSE IF a % 2 = 1 THEN 0 ELSE 1 + TrailingZeros(a \div 2)

AvailSetNone == 0
ToMask(v) == 2 ^ ValIdx(v)
AvailSetOnly(v) == ToMask(v)
AvailSetIsEmpty(s) == s = 0
AvailSetLen(s) == CountOnes(s)
AvailSetIsSingle(s) == AvailSetLen(s) = 1
\* get_single: 0 stands for None.
AvailSetGetSingle(s) == IF AvailSetIsSingle(s) THEN TrailingZeros(s) + 1 ELSE 0
AvailSetContains(s, v) == BitAnd(s, ToMask(v)) # 0
AvailSetOrVal(s, v) == BitOr(s, ToMask(v))
AvailSetSubVal(s, v) == BitAnd(s, BitNot16(ToMask(v)))
AvailSetOr(s, t) == BitOr(s, t)
AvailSetSub(s, t) == BitAnd(s, BitNot16(t))
AvailSetNot(s) == BitAnd(BitNot16(s), AvailSetAll)
\* The members in iteration order (AvailSetIter::next until None).
RECURSIVE AvailSetValsFrom(_, _)
AvailSetValsFrom(s, v) ==
    IF v > ValMax THEN <<>>
    ELSE IF AvailSetContains(s, v) THEN <<v>> \o AvailSetValsFrom(s, v + 1)
    ELSE AvailSetValsFrom(s, v + 1)
AvailSetVals(s) == AvailSetValsFrom(s, ValMin)

\* AvailSetIter: the set and the range of Val indexes that vals still holds.
AvailSetIntoIter(s) == [set |-> s, start |-> 0, end |-> ValNumIndexes]
\* next and next_back: ret is the value returned, 0 for None.
RECURSIVE AvailSetIterNext(_)
AvailSetIterNext(it) ==
    IF it.start >= it.end THEN [iter |-> it, ret |-> 0]
    ELSE LET val == ValFromIdx(it.start)
             rest == [it EXCEPT !.start = @ + 1]
         IN IF AvailSetContains(it.set, val) THEN [iter |-> rest, ret |-> val]
            ELSE AvailSetIterNext(rest)
RECURSIVE AvailSetIterNextBack(_)
AvailSetIterNextBack(it) ==
    IF it.start >= it.end THEN [iter |-> it, ret |-> 0]
    ELSE LET val == ValFromIdx(it.end - 1)
             rest == [it EXCEPT !.end = @ - 1]
         IN IF AvailSetContains(it.set, val) THEN [iter |-> rest, ret |-> val]
            ELSE AvailSetIterNextBack(rest)
\* Variant of size_hint whose low mask keeps the bit at start.
AvailSetIterLenLowBit(it) ==
    LET low_mask == 2 ^ it.start
        high_mask == (2 ^ it.end) - 1
        mask == BitAnd(high_mask, BitNot16(low_mask))
    IN CountOnes(BitAnd(it.set, mask))
\* size_hint, which len() returns.
AvailSetIterLen(it) ==
    LET low_mask == (2 ^ it.start) - 1
        high_mask == (2 ^ it.end) - 1
        mask == BitAnd(high_mask, BitNot16(low_mask))
    IN CountOnes(BitAnd(it.set, mask))

\* ------------------------------------------------------------------------
\* AvailCounter: IndexMap<Val, u8>, a function from Vals to counts.
\* ------------------------------------------------------------------------
AvailCounterWithCount(n) == [v \in Vals |-> n]
SaturatingSub(a, b) == IF a < b THEN 0 ELSE a - b
\* Variant of remove that counts up.
AvailCounterRemoveUp(cnt, v) ==
    IF cnt[v] = 0 THEN [counter |-> cnt, ret |-> -1]
    ELSE [counter |-> [cnt EXCEPT ![v] = @ + 1], ret |-> cnt[v] + 1]
\* remove: ret is the updated count, or -1 for None (the count was zero).
AvailCounterRemove(cnt, v) ==
    IF cnt[v] = 0 THEN [counter |-> cnt, ret |-> -1]
    ELSE [counter |-> [cnt EXCEPT ![v] = @ - 1], ret |-> cnt[v] - 1]
\* Variant of remove_except that removes every copy of the other values.
AvailCounterRemoveExceptKeepOnly(cnt, v) ==
    [d \in Vals |-> IF d = v THEN cnt[d] ELSE 0]
AvailCounterRemoveExcept(cnt, v) ==
    [d \in Vals |-> IF d = v THEN cnt[d] ELSE SaturatingSub(cnt[d], 1)]
\* Variant of avail that wants a count above one.
RECURSIVE AvailCounterAvailFromAboveOne(_, _)
AvailCounterAvailFromAboveOne(cnt, v) ==
    IF v > ValMax THEN AvailSetNone
    ELSE IF cnt[v] > 1 THEN AvailSetOrVal(AvailCounterAvailFromAboveOne(cnt, v + 1), v)
    ELSE AvailCounterAvailFromAboveOne(cnt, v + 1)
RECURSIVE AvailCounterAvailFrom(_, _)
AvailCounterAvailFrom(cnt, v) ==
    IF v > ValMax THEN AvailSetNone
    ELSE IF cnt[v] > 0 THEN AvailSetOrVal(AvailCounterAvailFrom(cnt, v + 1), v)
    ELSE AvailCounterAvailFrom(cnt, v + 1)
AvailCounterAvail(cnt) == AvailCounterAvailFrom(cnt, ValMin)
\* SubAssign<AvailSet>: remove(val) for every val of the set.
RECURSIVE AvailCounterSubVals(_, _)
AvailCounterSubVals(cnt, vals) ==
    IF vals = <<>> THEN cnt
    ELSE AvailCounterSubVals(AvailCounterRemove(cnt, Head(vals)).counter, Tail(vals))
AvailCounterSubSet(cnt, set) == AvailCounterSubVals(cnt, AvailSetVals(set))

\* ------------------------------------------------------------------------
\* Board and RemainingTracker.
\* ------------------------------------------------------------------------
\* A board maps every coordinate to a Val, or to 0 for None.
NoVal == 0
BoardOf(cells) == [coord \in Coords |-> cells[coord + 1]]

TrackerAllAvailable ==
    [board |-> [coord \in Coords |-> AvailSetAll],
     rows |-> [r \in Rows |-> AvailCounterWithCount(RowWidth)],
     cols |-> [c \in Cols |-> AvailCounterWithCount(RowWidth)],
     sectors |-> [s \in Sectors |-> AvailCounterWithCount(SectorWidth * SectorHeight)],
     sector_rows |-> [sr \in SectorRows |-> AvailCounterWithCount(SectorWidth)],
     sector_cols |-> [sc \in SectorCols |-> AvailCounterWithCount(SectorHeight)]]

\* The loop of new over the cells of a board, taken counter by counter: a
\* pinned cell changes its own entry of board and removes every other value
\* from the counters of the five zones that contain it, so a zone's counter
\* sees the pinned cells of the zone, in coordinate order.
RECURSIVE RemoveExceptPinned(_, _, _)
RemoveExceptPinned(cnt, board, coords) ==
    IF coords = <<>> THEN cnt
    ELSE RemoveExceptPinned(
            IF board[Head(coords)] # NoVal
            THEN AvailCounterRemoveExcept(cnt, board[Head(coords)]) ELSE cnt,
            board, Tail(coords))
RemainingTrackerNew(board) ==
    [board |-> [coord \in Coords |->
                  IF board[coord] # NoVal THEN AvailSetOnly(board[coord])
                  ELSE TrackerAllAvailable.board[coord]],
     rows |-> [r \in Rows |->
                  RemoveExceptPinned(TrackerAllAvailable.rows[r], board, RowCoords(r))],
     cols |-> [c \in Cols |->
                  RemoveExceptPinned(TrackerAllAvailable.cols[c], board, ColCoords(c))],
     sectors |-> [sec \in Sectors |->
                  RemoveExceptPinned(TrackerAllAvailable.sectors[sec], board, SectorCoords(sec))],
     sector_rows |-> [sr \in SectorRows |->
                  RemoveExceptPinned(TrackerAllAvailable.sector_rows[sr], board,
                                     SectorRowCoords(sr))],
     sector_cols |-> [sc \in SectorCols |->
                  RemoveExceptPinned(TrackerAllAvailable.sector_cols[sc], board,
                                     SectorColCoords(sc))]]

\* Variant of known_unsolveable that also consults the sector-rows and the
\* sector-cols.
KnownUnsolveableAllZones(tracker) ==
    \/ \E coord \in Coords : AvailSetIsEmpty(tracker.board[coord])
    \/ \E r \in Rows : AvailSetLen(AvailCounterAvail(tracker.rows[r])) < RowWidth
    \/ \E c \in Cols : AvailSetLen(AvailCounterAvail(tracker.cols[c])) < RowWidth
    \/ \E s \in Sectors :
          AvailSetLen(AvailCounterAvail(tracker.sectors[s])) < SectorWidth * SectorHeight
    \/ \E sr \in SectorRows :
          AvailSetLen(AvailCounterAvail(tracker.sector_rows[sr])) < SectorWidth
    \/ \E sc \in SectorCols :
          AvailSetLen(AvailCounterAvail(tracker.sector_cols[sc])) < SectorHeight

KnownUnsolveable(tracker) ==
    \/ \E coord \in Coords : AvailSetIsEmpty(tracker.board[coord])
    \/ \E r \in Rows : AvailSetLen(AvailCounterAvail(tracker.rows[r])) < RowWidth
    \/ \E c \in Cols : AvailSetLen(AvailCounterAvail(tracker.cols[c])) < RowWidth
    \/ \E s \in Sectors :
          AvailSetLen(AvailCounterAvail(tracker.sectors[s])) < SectorWidth * SectorHeight

\* Variant of is_solved_zone that accepts any positive count.
IsSolvedZoneAtLeastOne(cnt) == \A v \in Vals : cnt[v] >= 1
IsSolvedZone(cnt) == \A v \in Vals : cnt[v] = 1
\* Variant of is_solved that does not look at the sectors.
TrackerIsSolvedRowsCols(tracker) ==
    /\ \A r \in Rows : IsSolvedZone(tracker.rows[r])
    /\ \A c \in Cols : IsSolvedZone(tracker.cols[c])
\* Variant of is_solved that consults all five counter maps.
TrackerIsSolvedAllZones(tracker) ==
    /\ \A r \in Rows : IsSolvedZone(tracker.rows[r])
    /\ \A c \in Cols : IsSolvedZone(tracker.cols[c])
    /\ \A s \in Sectors : IsSolvedZone(tracker.sectors[s])
    /\ \A sr \in SectorRows : IsSolvedZone(tracker.sector_rows[sr])
    /\ \A sc \in SectorCols : IsSolvedZone(tracker.sector_cols[sc])
TrackerIsSolved(tracker) ==
    /\ \A r \in Rows : IsSolvedZone(tracker.rows[r])
    /\ \A c \in Cols : IsSolvedZone(tracker.cols[c])
    /\ \A s \in Sectors : IsSolvedZone(tracker.sectors[s])

\* Variant of into_board that keeps the index of the single member.
IntoBoardIdx(tracker) ==
    [coord \in Coords |->
        IF AvailSetIsSingle(tracker.board[coord]) THEN TrailingZeros(tracker.board[coord])
        ELSE NoVal]
\* into_board: Remaining::board keeps the single member of a cell, else None.
IntoBoard(tracker) == [coord \in Coords |-> AvailSetGetSingle(tracker.board[coord])]

BoardIsSolved(board) == TrackerIsSolved(RemainingTrackerNew(board))
BoardKnownUnsolveable(board) == KnownUnsolveable(RemainingTrackerNew(board))

\* Variant of the search for the cell to branch on that finds none.
FirstMultiNone(tracker) == -1
\* specify_one: the first cell with more than one member (-1 when there is
\* none, where the code's unwrap panics) and the copies it yields, in order.
FirstMulti(tracker) ==
    LET multi == {coord \in Coords : AvailSetLen(tracker.board[coord]) > 1} IN
    IF multi = {} THEN -1
    ELSE CHOOSE coord \in multi : \A other \in multi : coord <= other

\* Variant of the copy of specify_one that leaves the counters of the
\* sector-row and of the sector-col as they are.
SpecifyCopyNoLines(tracker, coord, avail, val) ==
    LET removed_values == AvailSetSubVal(avail, val) IN
    [board |-> [tracker.board EXCEPT ![coord] = AvailSetOnly(val)],
     rows |-> [tracker.rows EXCEPT ![CoordRow(coord)] = AvailCounterSubSet(@, removed_values)],
     cols |-> [tracker.cols EXCEPT ![CoordCol(coord)] = AvailCounterSubSet(@, removed_values)],
     sectors |->
        [tracker.sectors EXCEPT ![CoordSector(coord)] = AvailCounterSubSet(@, removed_values)],
     sector_rows |-> tracker.sector_rows,
     sector_cols |-> tracker.sector_cols]
SpecifyCopy(tracker, coord, avail, val) ==
    LET removed_values == AvailSetSubVal(avail, val) IN
    [board |-> [tracker.board EXCEPT ![coord] = AvailSetOnly(val)],
     rows |-> [tracker.rows EXCEPT ![CoordRow(coord)] = AvailCounterSubSet(@, removed_values)],
     cols |-> [tracker.cols EXCEPT ![CoordCol(coord)] = AvailCounterSubSet(@, removed_values)],
     sectors |->
        [tracker.sectors EXCEPT ![CoordSector(coord)] = AvailCounterSubSet(@, removed_values)],
     sector_rows |->
        [tracker.sector_rows EXCEPT
            ![CoordSectorRow(coord)] = AvailCounterSubSet(@, removed_values)],
     sector_cols |->
        [tracker.sector_cols EXCEPT
            ![CoordSectorCol(coord)] = AvailCounterSubSet(@, removed_values)]]

RECURSIVE SpecifyChoices(_, _, _, _)
SpecifyChoices(tracker, coord, avail, vals) ==
    IF vals = <<>> THEN <<>>
    ELSE LET copy == SpecifyCopy(tracker, coord, avail, Head(vals)) IN
         (IF KnownUnsolveable(copy) THEN <<>> ELSE <<copy>>)
             \o SpecifyChoices(tracker, coord, avail, Tail(vals))
\* Variant of specify_one that yields its first choice only.
SpecifyOneFirstOnly(tracker) ==
    LET coord == FirstMulti(tracker)
        all == SpecifyChoices(tracker, coord, tracker.board[coord],
                              AvailSetVals(tracker.board[coord]))
    IN SubSeq(all, 1, 1)
SpecifyOne(tracker) ==
    LET coord == FirstMulti(tracker) IN
    SpecifyChoices(tracker, coord, tracker.board[coord], AvailSetVals(tracker.board[coord]))

\* ------------------------------------------------------------------------
\* ReduceStep and ReduceQueue.
\* ------------------------------------------------------------------------
\* A step is <<variant, flat index of its target>>.
NoStep == <<-1, -1>>
\* Variant of the order that compares the target first.
StepLessByTarget(a, b) == a[2] < b[2] \/ (a[2] = b[2] /\ a[1] < b[1])
StepLess(a, b) == a[1] < b[1] \/ (a[1] = b[1] /\ a[2] < b[2])

\* pending models the BinaryHeap<Reverse<ReduceStep>> as the sequence of the
\* steps it holds; dedup is the HashSet.
ReduceQueueNew == [pending |-> <<>>, dedup |-> {}]
QueuePush(q, s) ==
    IF s \in q.dedup THEN q
    ELSE [pending |-> Append(q.pending, s), dedup |-> q.dedup \cup {s}]

\* The position in pending[lo..hi] of the least step (of the first of the
\* equal least steps), found by halving.
RECURSIVE LeastAt(_, _, _)
LeastAt(pending, lo, hi) ==
    IF lo = hi THEN lo
    ELSE LET mid == (lo + hi) \div 2
             a == LeastAt(pending, lo, mid)
             b == LeastAt(pending, mid + 1, hi)
         IN IF StepLess(pending[b], pending[a]) THEN b ELSE a
RemoveAt(seq, at) == SubSeq(seq, 1, at - 1) \o SubSeq(seq, at + 1, Len(seq))
\* Variant of pop that returns the step pushed first.
HeapPopFirstPushed(pending) == IF pending = <<>> THEN 0 ELSE 1
\* Variant of pop whose order follows the state of the hash set.
HeapPopHashOrder(pending) ==
    IF hashSeed = 0 THEN LeastAt(pending, 1, Len(pending)) ELSE Len(pending)
\* BinaryHeap::pop of the Reverse-wrapped steps: the position of the least.
HeapPop(pending) == LeastAt(pending, 1, Len(pending))
\* Variant of pop that leaves the popped step in dedup.
QueuePopKeepsDedup(q) ==
    LET at == HeapPop(q.pending)
        s == q.pending[at]
    IN [step |-> s,
        ok |-> s \in q.dedup,
        queue |-> [pending |-> RemoveAt(q.pending, at), dedup |-> q.dedup]]
\* pop on a non-empty heap; ok is the assertion that the step was in dedup.
QueuePop(q) ==
    LET at == HeapPop(q.pending)
        s == q.pending[at]
    IN [step |-> s,
        ok |-> s \in q.dedup,
        queue |-> [pending |-> RemoveAt(q.pending, at), dedup |-> q.dedup \ {s}]]

\* An UnsolveableReason: the name of its variant and the flat index of its
\* pos.  NoReason stands for no failure, Panicked(what) for a panic.
\* val is the val or the vals of the reason, NoVal when it has none.
ReasonWith(kind, pos, val) == [kind |-> kind, pos |-> pos, val |-> val]
Reason(kind, pos) == ReasonWith(kind, pos, NoVal)
NoReason == Reason("none", -1)
Panicked(what) == Reason(what, -1)

\* The RowColSec and SecRowSecCol helper traits, dispatched on the name of
\* the tracker field that holds the zone's counters.
RcsFailMustShare(field, z, vals) ==
    IF field = "rows" THEN ReasonWith("RowValsMustShare", z, vals)
    ELSE IF field = "cols" THEN ReasonWith("ColValsMustShare", z, vals)
    ELSE ReasonWith("SecValsMustShare", z, vals)
RcsFailMissingVal(field, z, val) ==
    IF field = "rows" THEN ReasonWith("RowMissingVal", z, val)
    ELSE IF field = "cols" THEN ReasonWith("ColMissingVal", z, val)
    ELSE ReasonWith("SecMissingVal", z, val)
SrscFailTooFewVals(field, z) ==
    IF field = "sector_rows" THEN Reason("SecRowTooFewVals", z)
    ELSE Reason("SecColTooFewVals", z)
RcsVisit(field, z) ==
    IF field = "rows" THEN <<RowValsSingularized, z>>
    ELSE IF field = "cols" THEN <<ColValsSingularized, z>>
    ELSE <<SecValsSingularized, z>>
RcsCoords(field, z) ==
    IF field = "rows" THEN RowCoords(z)
    ELSE IF field = "cols" THEN ColCoords(z)
    ELSE SectorCoords(z)
SrscCoords(field, z) == IF field = "sector_rows" THEN SectorRowCoords(z) ELSE SectorColCoords(z)
SrscLineField(field) == IF field = "sector_rows" THEN "rows" ELSE "cols"
SrscLine(field, z) == IF field = "sector_rows" THEN SectorRowLine(z) ELSE SectorColLine(z)
SrscSector(field, z) == IF field = "sector_rows" THEN SectorRowSector(z) ELSE SectorColSector(z)
SrscLineNeighbors(field, z) ==
    IF field = "sector_rows" THEN SectorRowRowNeighbors(z) ELSE SectorColColNeighbors(z)
SrscSecNeighbors(field, z) ==
    IF field = "sector_rows" THEN SectorRowSectorNeighbors(z) ELSE SectorColSectorNeighbors(z)
VisitSizeMatch(field, z) ==
    IF field = "sector_rows" THEN <<SecRowTripleized, z>> ELSE <<SecColTripleized, z>>
VisitOnlyInLine(field, z) ==
    IF field = "sector_rows" THEN <<RowOnlySec, z>> ELSE <<ColOnlySec, z>>
VisitOnlyInSec(field, z) ==
    IF field = "sector_rows" THEN <<SecOnlyRow, z>> ELSE <<SecOnlyCol, z>>
SrscSize(field) == IF field = "sector_rows" THEN SectorWidth ELSE SectorHeight

\* build_queue and its two helpers.  Each loop is modelled by the sequence
\* of the steps it pushes, in order (found by halving the index range); the
\* pushes are then made one after the other by QueuePushAll.
RECURSIVE BuildCoordSteps(_, _, _)
BuildCoordSteps(tracker, lo, hi) ==
    IF lo > hi THEN <<>>
    ELSE IF lo = hi
         THEN IF AvailSetIsSingle(tracker.board[lo])
              THEN <<<<CoordSingularized, lo>>>> ELSE <<>>
    ELSE LET mid == (lo + hi) \div 2 IN
         BuildCoordSteps(tracker, lo, mid) \o BuildCoordSteps(tracker, mid + 1, hi)
\* Variant of build_row_col_sec_queue that visits every zone.
BuildRowColSecQueueEvery(tracker, field, lo, hi) ==
    [i \in 1..(hi - lo + 1) |-> RcsVisit(field, lo + i - 1)]
RECURSIVE BuildRowColSecQueue(_, _, _, _)
BuildRowColSecQueue(tracker, field, lo, hi) ==
    IF lo > hi THEN <<>>
    ELSE IF lo = hi
         THEN IF \E v \in Vals : tracker[field][lo][v] = 1
              THEN <<RcsVisit(field, lo)>> ELSE <<>>
    ELSE LET mid == (lo + hi) \div 2 IN
         BuildRowColSecQueue(tracker, field, lo, mid)
             \o BuildRowColSecQueue(tracker, field, mid + 1, hi)
RECURSIVE BuildSecrowSeccolQueue(_, _, _, _)
BuildSecrowSeccolQueue(tracker, field, lo, hi) ==
    IF lo > hi THEN <<>>
    ELSE IF lo < hi
         THEN LET mid == (lo + hi) \div 2 IN
              BuildSecrowSeccolQueue(tracker, field, lo, mid)
                  \o BuildSecrowSeccolQueue(tracker, field, mid + 1, hi)
    ELSE LET avail == tracker[field][lo] IN
         (IF AvailSetLen(AvailCounterAvail(avail)) = SrscSize(field)
          THEN <<VisitSizeMatch(field, lo)>> ELSE <<>>)
         \o (IF \E v \in Vals :
                   avail[v] = tracker[SrscLineField(field)][SrscLine(field, lo)][v]
             THEN <<VisitOnlyInLine(field, lo)>> ELSE <<>>)
         \o (IF \E v \in Vals : avail[v] = tracker.sectors[SrscSector(field, lo)][v]
             THEN <<VisitOnlyInSec(field, lo)>> ELSE <<>>)

\* push for every step of steps in order: a step is appended at its first
\* occurrence, unless dedup holds it already.
QueuePushAll(q, steps) ==
    LET IsPushed(i) == steps[i] \notin q.dedup /\ \A j \in 1..(i - 1) : steps[j] # steps[i]
        pushed == SelectSeq([i \in DOMAIN steps |-> i], IsPushed)
    IN [pending |-> q.pending \o [k \in DOMAIN pushed |-> steps[pushed[k]]],
        dedup |-> q.dedup \cup Range(steps)]

\* Variant of build_queue that leaves out the singular cells.
BuildQueueZonesOnly(tracker) ==
    QueuePushAll(
        ReduceQueueNew,
        BuildRowColSecQueue(tracker, "rows", 0, RowNumIndexes - 1)
            \o BuildRowColSecQueue(tracker, "cols", 0, ColNumIndexes - 1)
            \o BuildRowColSecQueue(tracker, "sectors", 0, NumSectors - 1)
            \o BuildSecrowSeccolQueue(tracker, "sector_rows", 0, SectorRowNumIndexes - 1)
            \o BuildSecrowSeccolQueue(tracker, "sector_cols", 0, SectorColNumIndexes - 1))
BuildQueue(tracker) ==
    QueuePushAll(
        ReduceQueueNew,
        BuildCoordSteps(tracker, 0, CoordNumIndexes - 1)
            \o BuildRowColSecQueue(tracker, "rows", 0, RowNumIndexes - 1)
            \o BuildRowColSecQueue(tracker, "cols", 0, ColNumIndexes - 1)
            \o BuildRowColSecQueue(tracker, "sectors", 0, NumSectors - 1)
            \o BuildSecrowSeccolQueue(tracker, "sector_rows", 0, SectorRowNumIndexes - 1)
            \o BuildSecrowSeccolQueue(tracker, "sector_cols", 0, SectorColNumIndexes - 1))

\* ------------------------------------------------------------------------
\* DeductiveReducer: the state st is [remaining, queue, status, reason];
\* status is "ok", "unsolveable" (an Err(()) return) or "panic".
\* ------------------------------------------------------------------------
\* Variant in which a contradiction does not stop the reducer.
ReducerFailGoesOn(st, why) == st
ReducerFail(st, why) == [st EXCEPT !.status = "unsolveable", !.reason = why]
ReducerPanic(st, why) == [st EXCEPT !.status = "panic", !.reason = Panicked(why)]
ReducerPush(st, s) == [st EXCEPT !.queue = QueuePush(@, s)]

\* Variant of eliminate_from_cell that lets an emptied cell pass.
EliminateFromCellNoEmpty(st, coord, val) ==
    LET had == AvailSetContains(st.remaining.board[coord], val)
        cell == AvailSetSubVal(st.remaining.board[coord], val)
        s1 == [st EXCEPT !.remaining.board[coord] = cell]
    IN IF had /\ AvailSetIsSingle(cell)
       THEN [st |-> ReducerPush(s1, <<CoordSingularized, coord>>), ret |-> TRUE]
       ELSE [st |-> s1, ret |-> had]
\* Variant of eliminate_from_cell that does not enqueue the cell it left
\* with one value.
EliminateFromCellNoPush(st, coord, val) ==
    LET had == AvailSetContains(st.remaining.board[coord], val)
        cell == AvailSetSubVal(st.remaining.board[coord], val)
        s1 == [st EXCEPT !.remaining.board[coord] = cell]
    IN IF had /\ AvailSetIsEmpty(cell)
       THEN [st |-> ReducerFail(s1, Reason("Empty", coord)), ret |-> FALSE]
       ELSE [st |-> s1, ret |-> had]
\* eliminate_from_cell: ret is Ok(true) / Ok(false); status carries Err.
EliminateFromCell(st, coord, val) ==
    LET had == AvailSetContains(st.remaining.board[coord], val)
        cell == AvailSetSubVal(st.remaining.board[coord], val)
        s1 == [st EXCEPT !.remaining.board[coord] = cell]
    IN IF had
       THEN IF AvailSetIsEmpty(cell)
            THEN [st |-> ReducerFail(s1, Reason("Empty", coord)), ret |-> FALSE]
            ELSE IF AvailSetIsSingle(cell)
                 THEN [st |-> ReducerPush(s1, <<CoordSingularized, coord>>), ret |-> TRUE]
                 ELSE [st |-> s1, ret |-> TRUE]
       ELSE [st |-> s1, ret |-> FALSE]

\* Variant of eliminate_from_rcs that enqueues the zone at a count of two.
EliminateFromRcsAtTwo(st, field, z, val) ==
    LET r == AvailCounterRemove(st.remaining[field][z], val)
        s1 == [st EXCEPT !.remaining[field][z] = r.counter]
    IN IF r.ret = 0 THEN ReducerFail(s1, RcsFailMissingVal(field, z, val))
       ELSE IF r.ret = 2 THEN ReducerPush(s1, RcsVisit(field, z))
       ELSE IF r.ret = -1
            THEN ReducerPanic(s1, "Value was previously eliminated but reduction did not stop")
       ELSE s1
EliminateFromRcs(st, field, z, val) ==
    LET r == AvailCounterRemove(st.remaining[field][z], val)
        s1 == [st EXCEPT !.remaining[field][z] = r.counter]
    IN IF r.ret = 0 THEN ReducerFail(s1, RcsFailMissingVal(field, z, val))
       ELSE IF r.ret = 1 THEN ReducerPush(s1, RcsVisit(field, z))
       ELSE IF r.ret = -1
            THEN ReducerPanic(s1, "Value was previously eliminated but reduction did not stop")
       ELSE s1

\* The two neighbour loops of eliminate_from_secrow_seccol: push for the
\* first neighbour whose count equals that of its line (its sector), break.
\* Variant of the first neighbour loop that pushes nothing.
PushNoOnlyInLine(st, field, neighbors, val) == st
RECURSIVE PushFirstOnlyInLine(_, _, _, _)
PushFirstOnlyInLine(st, field, neighbors, val) ==
    IF neighbors = <<>> THEN st
    ELSE LET n == Head(neighbors) IN
         IF st.remaining[field][n][val]
                = st.remaining[SrscLineField(field)][SrscLine(field, n)][val]
         THEN ReducerPush(st, VisitOnlyInLine(field, n))
         ELSE PushFirstOnlyInLine(st, field, Tail(neighbors), val)
RECURSIVE PushFirstOnlyInSec(_, _, _, _)
PushFirstOnlyInSec(st, field, neighbors, val) ==
    IF neighbors = <<>> THEN st
    ELSE LET n == Head(neighbors) IN
         IF st.remaining[field][n][val] = st.remaining.sectors[SrscSector(field, n)][val]
         THEN ReducerPush(st, VisitOnlyInSec(field, n))
         ELSE PushFirstOnlyInSec(st, field, Tail(neighbors), val)

\* Variant of eliminate_from_secrow_seccol that lets a sector-row or
\* sector-col with too few values pass.
EliminateFromSecrowSeccolNoFail(st, field, z, val) ==
    LET r == AvailCounterRemove(st.remaining[field][z], val)
        s1 == [st EXCEPT !.remaining[field][z] = r.counter]
        num_avail == AvailSetLen(AvailCounterAvail(r.counter))
    IN IF r.ret = 0
       THEN LET s2 == IF num_avail = SrscSize(field)
                      THEN ReducerPush(s1, VisitSizeMatch(field, z)) ELSE s1
                s3 == PushFirstOnlyInLine(s2, field, SrscLineNeighbors(field, z), val)
            IN PushFirstOnlyInSec(s3, field, SrscSecNeighbors(field, z), val)
       ELSE s1
\* Variant of eliminate_from_secrow_seccol that enqueues the size match at
\* every decrement that leaves the line with as many values as cells.
EliminateFromSecrowSeccolEveryTime(st, field, z, val) ==
    LET r == AvailCounterRemove(st.remaining[field][z], val)
        s1 == [st EXCEPT !.remaining[field][z] = r.counter]
        num_avail == AvailSetLen(AvailCounterAvail(r.counter))
    IN IF r.ret = 0
       THEN IF num_avail < SrscSize(field)
            THEN ReducerFail(s1, SrscFailTooFewVals(field, z))
            ELSE LET s2 == IF num_avail = SrscSize(field)
                           THEN ReducerPush(s1, VisitSizeMatch(field, z)) ELSE s1
                     s3 == PushFirstOnlyInLine(s2, field, SrscLineNeighbors(field, z), val)
                 IN PushFirstOnlyInSec(s3, field, SrscSecNeighbors(field, z), val)
       ELSE IF num_avail = SrscSize(field)
            THEN ReducerPush(s1, VisitSizeMatch(field, z)) ELSE s1
EliminateFromSecrowSeccol(st, field, z, val) ==
    LET r == AvailCounterRemove(st.remaining[field][z], val)
        s1 == [st EXCEPT !.remaining[field][z] = r.counter]
        num_avail == AvailSetLen(AvailCounterAvail(r.counter))
    IN IF r.ret = 0
       THEN IF num_avail < SrscSize(field)
            THEN ReducerFail(s1, SrscFailTooFewVals(field, z))
            ELSE LET s2 == IF num_avail = SrscSize(field)
                           THEN ReducerPush(s1, VisitSizeMatch(field, z)) ELSE s1
                     s3 == PushFirstOnlyInLine(s2, field, SrscLineNeighbors(field, z), val)
                 IN PushFirstOnlyInSec(s3, field, SrscSecNeighbors(field, z), val)
       ELSE s1

\* Variant of eliminate that leaves the counters of the zones alone.
EliminateCellOnly(st, coord, val) == EliminateFromCell(st, coord, val).st

\* Variant of eliminate that goes on to the row counter whatever
\* eliminate_from_cell returned.
EliminateRowAnyway(st, coord, val) ==
    LET c == EliminateFromCell(st, coord, val) IN
    IF c.st.status = "ok" THEN EliminateFromRcs(c.st, "rows", CoordRow(coord), val) ELSE c.st

\* eliminate: the cell, then the row, column, sector, sector-row and
\* sector-col counters, each `?` returning at the first Err.
Eliminate(st, coord, val) ==
    LET c == EliminateFromCell(st, coord, val)
        s1 == IF c.st.status = "ok"
              THEN EliminateFromRcs(c.st, "rows", CoordRow(coord), val) ELSE c.st
        s2 == IF s1.status = "ok"
              THEN EliminateFromRcs(s1, "cols", CoordCol(coord), val) ELSE s1
        s3 == IF s2.status = "ok"
              THEN EliminateFromRcs(s2, "sectors", CoordSector(coord), val) ELSE s2
        s4 == IF s3.status = "ok"
              THEN EliminateFromSecrowSeccol(s3, "sector_rows", CoordSectorRow(coord), val)
              ELSE s3
        s5 == IF s4.status = "ok"
              THEN EliminateFromSecrowSeccol(s4, "sector_cols", CoordSectorCol(coord), val)
              ELSE s4
    IN IF c.ret THEN s5 ELSE c.st
\* What eliminate returns when it returns Ok: the Ok(true) or Ok(false) of
\* eliminate_from_cell.
EliminateRet(st, coord, val) == EliminateFromCell(st, coord, val).ret

\* ------------------------------------------------------------------------
\* The step handlers.  A handler fixes, when it starts, the values it
\* eliminates and the cells it walks; its calls are listed here in the order
\* the code makes them: op "eliminate" for eliminate(coord, val), op
\* "fail_must_share" for the early Err return of rcs_vals_singularized.
\* ------------------------------------------------------------------------
ValOps(coord, vals) ==
    [i \in 1..Len(vals) |-> [op |-> "eliminate", coord |-> coord, val |-> vals[i]]]
\* eliminate_all: for coord in zone, for val in vals.
RECURSIVE EliminateAll(_, _)
EliminateAll(coords, vals) ==
    IF coords = <<>> THEN <<>>
    ELSE ValOps(Head(coords), vals) \o EliminateAll(Tail(coords), vals)

RECURSIVE ZonesCoords(_, _)
ZonesCoords(field, zones) ==
    IF zones = <<>> THEN <<>>
    ELSE SrscCoords(field, Head(zones)) \o ZonesCoords(field, Tail(zones))

\* Variant of coord_singularized that leaves out the neighbours in the sector.
CoordSingularizedCallsRowCol(tracker, coord) ==
    LET val == AvailSetGetSingle(tracker.board[coord])
        line == SelectNeq(RowCoords(CoordRow(coord)) \o ColCoords(CoordCol(coord)), coord)
    IN [panic |-> val = NoVal,
        calls |-> [i \in 1..Len(line) |-> [op |-> "eliminate", coord |-> line[i], val |-> val]]]
\* coord_singularized: val is 0 where get_single().unwrap() panics.
CoordSingularizedCalls(tracker, coord) ==
    LET val == AvailSetGetSingle(tracker.board[coord]) IN
    [panic |-> val = NoVal,
     calls |-> [i \in 1..Len(NeighborsOf[coord]) |->
                  [op |-> "eliminate", coord |-> NeighborsOf[coord][i], val |-> val]]]

RECURSIVE CountsEqualFrom(_, _, _)
CountsEqualFrom(cnt, other, v) ==
    IF v > ValMax THEN AvailSetNone
    ELSE IF cnt[v] = other[v] THEN AvailSetOrVal(CountsEqualFrom(cnt, other, v + 1), v)
    ELSE CountsEqualFrom(cnt, other, v + 1)
\* Variant of the fold of rcs_vals_singularized that takes the values whose
\* count is 1 or 2.
SinglesUpToTwo(cnt) ==
    AvailSetOr(CountsEqualFrom(cnt, AvailCounterWithCount(1), ValMin),
               CountsEqualFrom(cnt, AvailCounterWithCount(2), ValMin))
\* The fold of rcs_vals_singularized: the values whose count is 1.
Singles(cnt) == CountsEqualFrom(cnt, AvailCounterWithCount(1), ValMin)

\* Variant of the walk of rcs_vals_singularized that passes over a cell with
\* several of the single values.
RECURSIVE RcsCallsNoShare(_, _, _)
RcsCallsNoShare(tracker, singles, coords) ==
    IF coords = <<>> THEN <<>>
    ELSE LET coord == Head(coords)
             rem == tracker.board[coord]
             matches == BitAnd(rem, singles)
         IN IF ~AvailSetIsSingle(matches) THEN RcsCallsNoShare(tracker, singles, Tail(coords))
            ELSE ValOps(coord, AvailSetVals(AvailSetSub(rem, singles)))
                     \o RcsCallsNoShare(tracker, singles, Tail(coords))
RECURSIVE RcsCalls(_, _, _)
RcsCalls(tracker, singles, coords) ==
    IF coords = <<>> THEN <<>>
    ELSE LET coord == Head(coords)
             rem == tracker.board[coord]
             matches == BitAnd(rem, singles)
         IN IF AvailSetIsEmpty(matches) THEN RcsCalls(tracker, singles, Tail(coords))
            ELSE IF ~AvailSetIsSingle(matches)
                 THEN <<[op |-> "fail_must_share", coord |-> coord, val |-> matches]>>
            ELSE ValOps(coord, AvailSetVals(AvailSetSub(rem, singles)))
                     \o RcsCalls(tracker, singles, Tail(coords))
RcsValsSingularizedCalls(tracker, field, z) ==
    [panic |-> FALSE,
     calls |-> RcsCalls(tracker, Singles(tracker[field][z]), RcsCoords(field, z))]

\* Variant of secrow_seccol_tripleized that leaves out the neighbours in the
\* sector.
SecrowSeccolTripleizedCallsLineOnly(tracker, field, z) ==
    LET values == AvailCounterAvail(tracker[field][z]) IN
    [panic |-> AvailSetLen(values) # SrscSize(field),
     calls |-> EliminateAll(ZonesCoords(field, SrscLineNeighbors(field, z)),
                            AvailSetVals(values))]
\* secrow_seccol_tripleized; panic is the failure of its debug_assert.
SecrowSeccolTripleizedCalls(tracker, field, z) ==
    LET values == AvailCounterAvail(tracker[field][z]) IN
    [panic |-> AvailSetLen(values) # SrscSize(field),
     calls |-> EliminateAll(
                  ZonesCoords(field, SrscLineNeighbors(field, z) \o SrscSecNeighbors(field, z)),
                  AvailSetVals(values))]

\* Variant of secrow_seccol_only_in_line that walks the neighbours in the
\* line.
SecrowSeccolOnlyInLineCallsLine(tracker, field, z) ==
    LET uniques == CountsEqualFrom(tracker[field][z],
                                   tracker[SrscLineField(field)][SrscLine(field, z)], ValMin)
    IN [panic |-> FALSE,
        calls |-> EliminateAll(ZonesCoords(field, SrscLineNeighbors(field, z)),
                               AvailSetVals(uniques))]
SecrowSeccolOnlyInLineCalls(tracker, field, z) ==
    LET uniques == CountsEqualFrom(tracker[field][z],
                                   tracker[SrscLineField(field)][SrscLine(field, z)], ValMin)
    IN [panic |-> FALSE,
        calls |-> EliminateAll(ZonesCoords(field, SrscSecNeighbors(field, z)),
                               AvailSetVals(uniques))]

SecrowSeccolOnlyInSecCalls(tracker, field, z) ==
    LET uniques == CountsEqualFrom(tracker[field][z],
                                   tracker.sectors[SrscSector(field, z)], ValMin)
    IN [panic |-> FALSE,
        calls |-> EliminateAll(ZonesCoords(field, SrscLineNeighbors(field, z)),
                               AvailSetVals(uniques))]

\* The match of DeductiveReducer::reduce.
StepCalls(tracker, s) ==
    LET kind == s[1]
        z == s[2]
    IN CASE kind = CoordSingularized -> CoordSingularizedCalls(tracker, z)
         [] kind = RowValsSingularized -> RcsValsSingularizedCalls(tracker, "rows", z)
         [] kind = ColValsSingularized -> RcsValsSingularizedCalls(tracker, "cols", z)
         [] kind = SecValsSingularized -> RcsValsSingularizedCalls(tracker, "sectors", z)
         [] kind = SecRowTripleized -> SecrowSeccolTripleizedCalls(tracker, "sector_rows", z)
         [] kind = SecColTripleized -> SecrowSeccolTripleizedCalls(tracker, "sector_cols", z)
         [] kind = RowOnlySec -> SecrowSeccolOnlyInLineCalls(tracker, "sector_rows", z)
         [] kind = SecOnlyRow -> SecrowSeccolOnlyInSecCalls(tracker, "sector_rows", z)
         [] kind = ColOnlySec -> SecrowSeccolOnlyInLineCalls(tracker, "sector_cols", z)
         [] OTHER -> SecrowSeccolOnlyInSecCalls(tracker, "sector_cols", z)

\* A call that changes something: an eliminate whose value is still in its
\* cell (else eliminate_from_cell returns Ok(false) and eliminate does
\* nothing more), or the early return.
CallActs(call, tracker) ==
    call.op # "eliminate" \/ AvailSetContains(tracker.board[call.coord], call.val)
\* The position in calls[lo..hi] of the first call that acts, 0 for none.
RECURSIVE FirstActing(_, _, _, _)
FirstActing(cs, tracker, lo, hi) ==
    IF lo > hi THEN 0
    ELSE IF lo = hi THEN (IF CallActs(cs[lo], tracker) THEN lo ELSE 0)
    ELSE LET mid == (lo + hi) \div 2
             a == FirstActing(cs, tracker, lo, mid)
         IN IF a # 0 THEN a ELSE FirstActing(cs, tracker, mid + 1, hi)
\* The calls from the first one that acts on.
SkipAbsent(cs, tracker) ==
    LET at == FirstActing(cs, tracker, 1, Len(cs)) IN
    IF at = 0 THEN <<>> ELSE SubSeq(cs, at, Len(cs))

\* ------------------------------------------------------------------------
\* Input boards.
\* ------------------------------------------------------------------------
\* lib.rs solve_puzzle1: the board and the expected solution.
Puzzle1 ==
    BoardOf(<<0, 0, 0, 1, 0, 0, 0, 0, 0,
              0, 0, 0, 0, 5, 8, 6, 0, 1,
              8, 0, 1, 3, 6, 0, 0, 9, 0,
              5, 0, 0, 0, 0, 0, 4, 0, 3,
              0, 0, 3, 6, 0, 1, 8, 0, 0,
              6, 0, 4, 0, 0, 0, 0, 0, 7,
              0, 3, 0, 0, 8, 4, 5, 0, 6,
              1, 0, 5, 7, 2, 0, 0, 0, 0,
              0, 0, 0, 0, 0, 3, 0, 0, 0>>)
Expected1 ==
    BoardOf(<<4, 6, 7, 1, 9, 2, 3, 8, 5,
              3, 2, 9, 4, 5, 8, 6, 7, 1,
              8, 5, 1, 3, 6, 7, 2, 9, 4,
              5, 1, 8, 2, 7, 9, 4, 6, 3,
              2, 7, 3, 6, 4, 1, 8, 5, 9,
              6, 9, 4, 8, 3, 5, 1, 2, 7,
              7, 3, 2, 9, 8, 4, 5, 1, 6,
              1, 4, 5, 7, 2, 6, 9, 3, 8,
              9, 8, 6, 5, 1, 3, 7, 4, 2>>)
\* lib.rs solve_puzzle2.
Puzzle2 ==
    BoardOf(<<0, 0, 0, 8, 0, 0, 0, 1, 4,
              1, 0, 6, 4, 0, 0, 7, 5, 0,
              0, 4, 7, 5, 3, 0, 0, 0, 0,
              9, 0, 0, 0, 5, 0, 0, 6, 2,
              0, 0, 0, 7, 0, 9, 0, 0, 0,
              6, 3, 0, 0, 4, 0, 0, 0, 5,
              0, 0, 0, 0, 8, 7, 3, 4, 0,
              0, 1, 4, 0, 0, 5, 6, 0, 9,
              8, 9, 0, 0, 0, 4, 0, 0, 0>>)
Expected2 ==
    BoardOf(<<3, 5, 9, 8, 7, 6, 2, 1, 4,
              1, 8, 6, 4, 9, 2, 7, 5, 3,
              2, 4, 7, 5, 3, 1, 8, 9, 6,
              9, 7, 8, 1, 5, 3, 4, 6, 2,
              4, 2, 5, 7, 6, 9, 1, 3, 8,
              6, 3, 1, 2, 4, 8, 9, 7, 5,
              5, 6, 2, 9, 8, 7, 3, 4, 1,
              7, 1, 4, 3, 2, 5, 6, 8, 9,
              8, 9, 3, 6, 1, 4, 5, 2, 7>>)
\* lib.rs solve_puzzle3.
Puzzle3 ==
    BoardOf(<<0, 4, 9, 0, 0, 0, 6, 5, 0,
              0, 5, 0, 8, 0, 7, 0, 0, 3,
              0, 0, 0, 4, 6, 0, 0, 0, 0,
              2, 7, 0, 0, 0, 0, 0, 0, 0,
              0, 0, 4, 5, 0, 1, 8, 0, 0,
              0, 0, 0, 0, 0, 0, 0, 3, 2,
              0, 0, 0, 0, 4, 2, 0, 0, 0,
              9, 0, 0, 3, 0, 6, 0, 2, 0,
              0, 2, 7, 0, 0, 0, 3, 1, 0>>)
Expected3 ==
    BoardOf(<<7, 4, 9, 2, 1, 3, 6, 5, 8,
              1, 5, 6, 8, 9, 7, 2, 4, 3,
              8, 3, 2, 4, 6, 5, 9, 7, 1,
              2, 7, 8, 6, 3, 4, 1, 9, 5,
              3, 9, 4, 5, 2, 1, 8, 6, 7,
              6, 1, 5, 7, 8, 9, 4, 3, 2,
              5, 6, 3, 1, 4, 2, 7, 8, 9,
              9, 8, 1, 3, 7, 6, 5, 2, 4,
              4, 2, 7, 9, 5, 8, 3, 1, 6>>)
\* lib.rs solve_bad: puzzle 3 with a second 3 in its first row.
BadBoard == [Puzzle3 EXCEPT ![0] = 3]
\* lib.rs solve_empty: Board::new().
EmptyBoard == [coord \in Coords |-> NoVal]

\* Further inputs, chosen to drive the reducer into each of its outcomes.
\* A value repeated in a row of an almost full board: a cell runs empty.
BoardEmptyCell ==
    BoardOf(<<4, 6, 7, 1, 9, 2, 3, 8, 5,
              3, 4, 0, 4, 5, 8, 6, 7, 1,
              8, 5, 1, 3, 6, 7, 2, 9, 4,
              5, 1, 8, 2, 7, 0, 4, 6, 3,
              2, 7, 3, 6, 4, 1, 8, 5, 9,
              6, 9, 4, 8, 3, 5, 1, 2, 7,
              7, 3, 2, 9, 8, 4, 5, 1, 6,
              1, 4, 5, 7, 0, 6, 9, 3, 8,
              9, 8, 6, 5, 1, 3, 7, 4, 0>>)
\* A value repeated in a column: a zone loses its last place for a value.
BoardMissingVal ==
    BoardOf(<<7, 4, 9, 2, 1, 3, 6, 5, 8,
              1, 5, 6, 8, 9, 7, 0, 4, 3,
              8, 3, 2, 4, 6, 5, 9, 7, 1,
              2, 7, 8, 6, 3, 4, 1, 9, 5,
              3, 9, 4, 5, 2, 1, 8, 6, 7,
              6, 1, 5, 7, 8, 9, 4, 3, 2,
              5, 0, 3, 1, 4, 2, 7, 8, 9,
              2, 8, 0, 3, 7, 6, 5, 2, 4,
              4, 2, 0, 9, 5, 8, 3, 1, 6>>)
\* Two values of a zone have the same cell as their only place.
BoardMustShare ==
    BoardOf(<<0, 0, 0, 1, 9, 2, 0, 8, 0,
              0, 0, 0, 0, 0, 0, 0, 0, 0,
              0, 5, 0, 3, 0, 0, 0, 9, 4,
              5, 0, 0, 0, 7, 0, 4, 0, 0,
              0, 0, 3, 0, 0, 0, 0, 5, 0,
              0, 0, 0, 8, 0, 0, 0, 0, 0,
              7, 0, 2, 0, 8, 4, 5, 0, 0,
              0, 0, 0, 0, 0, 6, 9, 3, 0,
              0, 8, 6, 0, 2, 0, 0, 4, 0>>)
\* A sector-row is left with fewer values than cells.
BoardTooFewVals ==
    BoardOf(<<7, 0, 6, 0, 0, 0, 0, 5, 8,
              0, 0, 0, 0, 9, 7, 2, 4, 0,
              0, 0, 0, 4, 6, 0, 0, 0, 1,
              0, 0, 8, 6, 0, 0, 0, 9, 0,
              3, 9, 0, 5, 0, 0, 0, 0, 0,
              6, 0, 0, 0, 0, 0, 0, 3, 0,
              0, 0, 0, 0, 0, 0, 0, 0, 9,
              9, 8, 1, 0, 7, 0, 0, 0, 0,
              4, 0, 7, 0, 5, 8, 3, 1, 6>>)
\* Two completions: the reducer saturates unsolved and the driver guesses.
BoardTwoCompletions ==
    BoardOf(<<4, 6, 7, 1, 9, 0, 3, 8, 0,
              3, 2, 9, 0, 5, 8, 6, 0, 0,
              8, 5, 0, 3, 6, 7, 2, 0, 4,
              5, 1, 8, 2, 7, 9, 4, 6, 3,
              2, 7, 0, 6, 0, 0, 8, 5, 0,
              0, 9, 0, 8, 0, 5, 1, 0, 0,
              7, 3, 2, 9, 8, 4, 5, 1, 6,
              1, 4, 5, 0, 0, 0, 9, 3, 8,
              9, 8, 6, 5, 1, 3, 7, 4, 0>>)
\* Guesses that are refuted before one succeeds.
BoardGuessFails ==
    BoardOf(<<7, 0, 0, 0, 0, 3, 6, 0, 0,
              1, 0, 0, 0, 0, 7, 0, 4, 0,
              0, 0, 0, 0, 0, 0, 0, 0, 0,
              2, 0, 8, 6, 3, 4, 0, 0, 0,
              3, 0, 0, 0, 2, 0, 0, 6, 0,
              0, 1, 0, 0, 0, 0, 4, 3, 0,
              5, 0, 0, 1, 4, 2, 7, 8, 0,
              0, 0, 1, 3, 7, 0, 0, 2, 4,
              4, 0, 7, 0, 0, 8, 0, 0, 0>>)
\* One completion, found only after guesses that are refuted by reduce.
BoardUniqueGuess ==
    BoardOf(<<4, 6, 0, 1, 0, 0, 0, 0, 5,
              0, 0, 0, 4, 0, 0, 0, 0, 0,
              0, 0, 0, 0, 0, 0, 2, 0, 4,
              0, 0, 8, 0, 0, 9, 0, 6, 0,
              0, 7, 0, 0, 0, 0, 0, 0, 9,
              0, 0, 0, 8, 3, 0, 0, 0, 0,
              0, 0, 2, 9, 0, 4, 5, 0, 6,
              1, 4, 0, 7, 2, 0, 0, 0, 0,
              9, 0, 0, 5, 0, 0, 0, 0, 0>>)
\* No completion, and no clash among the pinned cells: every guess is refuted.
BoardGuessesAllFail ==
    BoardOf(<<4, 6, 0, 1, 0, 0, 0, 0, 5,
              0, 0, 0, 4, 0, 0, 0, 0, 0,
              0, 0, 0, 0, 0, 0, 2, 0, 4,
              0, 0, 8, 0, 0, 9, 0, 6, 0,
              0, 7, 0, 0, 0, 0, 0, 0, 9,
              0, 0, 0, 8, 1, 0, 0, 0, 0,
              0, 0, 2, 9, 0, 4, 5, 0, 6,
              1, 4, 0, 7, 2, 0, 0, 0, 0,
              9, 0, 0, 5, 0, 0, 0, 0, 0>>)

\* A board whose first row has 1 and 2 left in its last cell only and 3 in
\* its first cell only, the first cell being the only place of 4 in its
\* column.
BoardShareAfterMissing ==
    BoardOf(<<0, 0, 0, 0, 0, 0, 0, 0, 0,
              1, 0, 0, 0, 2, 3, 0, 0, 0,
              0, 2, 0, 1, 4, 0, 3, 0, 0,
              0, 3, 0, 0, 0, 0, 1, 0, 0,
              0, 4, 0, 0, 0, 0, 2, 0, 0,
              0, 0, 0, 0, 0, 0, 0, 0, 0,
              0, 0, 3, 0, 0, 0, 0, 0, 0,
              0, 0, 4, 0, 0, 0, 0, 1, 0,
              0, 0, 0, 0, 0, 0, 0, 2, 0>>)
\* A board derived from Expected1 on which a SecOnlyRow step eliminates: a
\* digit left in one row of a box only is still in the rest of that row.
BoardOnlyInSec ==
    BoardOf(<<4, 6, 7, 0, 9, 0, 3, 8, 5,
              3, 2, 0, 0, 5, 0, 6, 0, 0,
              0, 5, 0, 0, 6, 0, 0, 0, 0,
              5, 1, 8, 0, 0, 0, 4, 0, 0,
              2, 7, 0, 6, 4, 0, 0, 5, 9,
              0, 0, 0, 8, 0, 5, 0, 2, 0,
              0, 3, 0, 9, 8, 0, 5, 1, 0,
              0, 0, 0, 0, 0, 0, 0, 0, 8,
              0, 0, 0, 5, 1, 3, 0, 4, 0>>)
\* A board derived from Expected1 on which a hint step on a line and its
\* box is enqueued again after it was popped.
BoardHintAgain ==
    BoardOf(<<0, 0, 0, 0, 0, 2, 3, 0, 0,
              3, 0, 0, 4, 0, 0, 6, 7, 0,
              0, 5, 0, 3, 6, 0, 0, 0, 0,
              5, 0, 0, 0, 7, 9, 0, 6, 3,
              0, 0, 0, 0, 0, 0, 8, 0, 0,
              6, 0, 0, 0, 3, 0, 1, 0, 7,
              0, 3, 2, 0, 8, 0, 0, 1, 6,
              0, 0, 5, 0, 0, 0, 0, 3, 8,
              9, 0, 6, 5, 0, 0, 0, 0, 0>>)
HintBoards == {BoardOnlyInSec, BoardHintAgain}
\* Five givens, no two of them in conflict, that leave the first row
\* without a place for a value, and little else to deduce from.
BoardRowMissingVal ==
    BoardOf(<<0, 0, 0, 0, 0, 0, 2, 3, 4,
              1, 0, 0, 0, 0, 0, 0, 0, 0,
              0, 0, 0, 1, 0, 0, 0, 0, 0,
              0, 0, 0, 0, 0, 0, 0, 0, 0,
              0, 0, 0, 0, 0, 0, 0, 0, 0,
              0, 0, 0, 0, 0, 0, 0, 0, 0,
              0, 0, 0, 0, 0, 0, 0, 0, 0,
              0, 0, 0, 0, 0, 0, 0, 0, 0,
              0, 0, 0, 0, 0, 0, 0, 0, 0>>)
TestBoards ==
    {Puzzle1, Expected1, Puzzle2, Expected2, Puzzle3, Expected3, BadBoard,
     BoardEmptyCell, BoardMissingVal, BoardMustShare, BoardTooFewVals,
     BoardTwoCompletions, BoardGuessFails, BoardUniqueGuess, BoardGuessesAllFail,
     BoardShareAfterMissing}
\* The boards that differ from the solved board Expected1 in one of its
\* first cells, blank or given another digit.
PinnedBoards ==
    {[Expected1 EXCEPT ![coord] = v] : coord \in 0..MaxPinCell, v \in NoVal..ValMax}
Inputs == TestBoards \cup PinnedBoards \cup HintBoards \cup {BoardRowMissingVal}

\* ------------------------------------------------------------------------
\* The DeductiveTracer given to reduce, and the records it is handed.
\* ------------------------------------------------------------------------
NopDeductiveTracer == [kind |-> "nop", records |-> <<>>]
VecDeduction == [kind |-> "vec", records |-> <<>>]
TracerNew(t) == [t EXCEPT !.records = <<>>]
\* Variant of Vec<Deduction>::deduce that keeps the first record only.
TracerDeduceFirstOnly(t, why, rem) ==
    IF t.kind = "nop" \/ t.records # <<>> THEN t
    ELSE [t EXCEPT !.records = Append(@, [reason |-> why, remaining |-> rem])]
\* DeductiveTracer::deduce: NopDeductiveTracer drops the record, Vec pushes it.
TracerDeduce(t, why, rem) ==
    IF t.kind = "nop" THEN t
    ELSE [t EXCEPT !.records = Append(@, [reason |-> why, remaining |-> rem])]

InitialState == Reason("InitialState", -1)
Unsolveable(why) == [kind |-> "Unsolveable", pos |-> why.pos, val |-> why.val, why |-> why.kind]
DeducedKind ==
    [k \in CoordSingularized..SecOnlyCol |->
        IF k = CoordSingularized THEN "CoordNeighbors"
        ELSE IF k = RowValsSingularized THEN "UniqueInRow"
        ELSE IF k = ColValsSingularized THEN "UniqueInCol"
        ELSE IF k = SecValsSingularized THEN "UniqueInSector"
        ELSE IF k = SecRowTripleized THEN "SecRowTriple"
        ELSE IF k = SecColTripleized THEN "SecColTriple"
        ELSE IF k = RowOnlySec THEN "RowOnlySec"
        ELSE IF k = SecOnlyRow THEN "SecOnlyRow"
        ELSE IF k = ColOnlySec THEN "ColOnlySec"
        ELSE "SecOnlyCol"]
\* The values a handler has eliminated since it started: the accumulator
\* eliminated of eliminate_all.
RECURSIVE EliminatedFrom(_, _, _)
EliminatedFrom(before, now, v) ==
    IF v > ValMax THEN AvailSetNone
    ELSE IF \E coord \in Coords : AvailSetContains(before.board[coord], v)
                                      /\ ~AvailSetContains(now.board[coord], v)
    THEN AvailSetOrVal(EliminatedFrom(before, now, v + 1), v)
    ELSE EliminatedFrom(before, now, v + 1)
\* The accumulator deduced of rcs_vals_singularized: the single values of the
\* cells that lost a value.
RECURSIVE RcsDeducedFrom(_, _, _, _)
RcsDeducedFrom(before, now, singles, coords) ==
    IF coords = <<>> THEN AvailSetNone
    ELSE IF before.board[Head(coords)] # now.board[Head(coords)]
    THEN AvailSetOr(BitAnd(before.board[Head(coords)], singles),
                    RcsDeducedFrom(before, now, singles, Tail(coords)))
    ELSE RcsDeducedFrom(before, now, singles, Tail(coords))
\* The reason a handler that eliminated something hands to deduce.
StepDeduced(s, before, now) ==
    IF s[1] = CoordSingularized
    THEN ReasonWith(DeducedKind[s[1]], s[2], AvailSetGetSingle(before.board[s[2]]))
    ELSE IF s[1] \in {RowValsSingularized, ColValsSingularized, SecValsSingularized}
    THEN LET field == IF s[1] = RowValsSingularized THEN "rows"
                      ELSE IF s[1] = ColValsSingularized THEN "cols" ELSE "sectors"
         IN ReasonWith(DeducedKind[s[1]], s[2],
                       RcsDeducedFrom(before, now, Singles(before[field][s[2]]),
                                      RcsCoords(field, s[2])))
    ELSE ReasonWith(DeducedKind[s[1]], s[2], EliminatedFrom(before, now, ValMin))

\* ------------------------------------------------------------------------
\* Board::solve as a state machine.
\* ------------------------------------------------------------------------
NoResult == [some |-> FALSE, board |-> EmptyBoard]
NoItem == [op |-> "none", val |-> NoVal]
NoArg == <<>>
NoOut == <<>>
SomeBoard(board) == [some |-> TRUE, board |-> board]

\* The state at the call of solve on board, reduce being given the tracer t.
InitWith(board, t) ==
    /\ input = board
    /\ atStart = TrackerAllAvailable
    /\ tracer = t
    /\ stack = <<[depth |-> 0, tracker |-> RemainingTrackerNew(input)]>>
    /\ pc = "driver"
    /\ depth = 0
    /\ queue = ReduceQueueNew
    /\ hashSeed = 0
    /\ step = NoStep
    /\ calls = <<>>
    /\ status = "ok"
    /\ reason = NoReason
    /\ result = NoResult
    /\ log = <<>>
    /\ run = 1
    /\ log1 = <<>>
    /\ result1 = NoResult
    /\ called = "none"
    /\ ret = FALSE
    /\ out = NoOut
    /\ yielded = AvailSetNone
    /\ item = NoItem

\* solve gives reduce a NopDeductiveTracer.
InitOn(board) == InitWith(board, NopDeductiveTracer) /\ completions = <<>>

Init ==
    \E board \in Inputs :
        /\ InitOn(board)
        /\ remaining = TrackerAllAvailable
        /\ iter = AvailSetIntoIter(AvailSetNone)
        /\ arg = NoArg

\* The loop of reduce found the queue empty.
Saturated == pc = "reduce" /\ calls = <<>> /\ queue.pending = <<>>

\* stack.pop() returned a tracker: DeductiveReducer::new builds the queue.
DriverPop ==
    /\ pc = "driver"
    /\ stack # <<>>
    /\ \E seed \in 0..MaxHashSeed :
          LET top == stack[Len(stack)] IN
          /\ stack' = SubSeq(stack, 1, Len(stack) - 1)
          /\ depth' = top.depth
          /\ remaining' = top.tracker
          /\ queue' = BuildQueue(top.tracker)
          /\ hashSeed' = seed
          /\ log' = Append(log, [ev |-> "visit", depth |-> top.depth, at |-> top.tracker])
          /\ atStart' = top.tracker
          /\ tracer' = TracerDeduce(TracerNew(tracer), InitialState, top.tracker.board)
    /\ pc' = "reduce"
    /\ step' = NoStep
    /\ calls' = <<>>
    /\ status' = "ok"
    /\ reason' = NoReason
    /\ UNCHANGED <<input, result>>
    /\ UNCHANGED <<twiceVars, boardVars, iterVars, refVars>>

\* stack.pop() returned None: solve returns None.
DriverExhausted ==
    /\ pc = "driver"
    /\ stack = <<>>
    /\ result' = NoResult
    /\ pc' = "done"
    /\ UNCHANGED <<input, stack, depth, remaining, queue, hashSeed, step, calls, status,
                   reason, log, atStart, tracer>>
    /\ UNCHANGED <<twiceVars, boardVars, iterVars, refVars>>

\* queue.pop() returned a step: its handler starts and makes the calls that
\* find their value absent already.
StepPop ==
    /\ pc = "reduce"
    /\ calls = <<>>
    /\ queue.pending # <<>>
    /\ \E p \in {QueuePop(queue)} : \E h \in {StepCalls(remaining, p.step)} :
          /\ queue' = p.queue
          /\ step' = p.step
          /\ log' = Append(log, [ev |-> "step", depth |-> depth, at |-> p.step])
          /\ IF p.ok /\ ~h.panic
             THEN /\ calls' = SkipAbsent(h.calls, remaining)
                  /\ pc' = "reduce"
                  /\ UNCHANGED <<status, reason>>
             ELSE /\ calls' = <<>>
                  /\ pc' = "panic"
                  /\ status' = "panic"
                  /\ reason' = IF p.ok THEN Panicked("handler") ELSE Panicked("pop")
    /\ atStart' = remaining
    /\ UNCHANGED <<input, stack, depth, remaining, hashSeed, result, tracer>>
    /\ UNCHANGED <<twiceVars, boardVars, iterVars, refVars>>

\* The handler's next call of eliminate that finds its value present, and the
\* calls after it that find theirs absent.
EliminateCall ==
    /\ pc = "reduce"
    /\ calls # <<>>
    /\ Head(calls).op = "eliminate"
    /\ \E st \in {Eliminate([remaining |-> remaining, queue |-> queue, status |-> "ok",
                              reason |-> NoReason],
                             Head(calls).coord, Head(calls).val)} :
          /\ remaining' = st.remaining
          /\ queue' = st.queue
          /\ status' = st.status
          /\ reason' = st.reason
          /\ calls' = IF st.status = "ok" THEN SkipAbsent(Tail(calls), st.remaining) ELSE <<>>
          /\ pc' = IF st.status = "ok" THEN "reduce"
                   ELSE IF st.status = "panic" THEN "panic" ELSE "driver"
          /\ tracer' = IF status' = "unsolveable"
                        THEN TracerDeduce(tracer, Unsolveable(reason'), remaining'.board)
                        ELSE IF status' = "ok" /\ calls' = <<>>
                        THEN TracerDeduce(tracer, StepDeduced(step, atStart, remaining'),
                                          remaining'.board)
                        ELSE tracer
    /\ UNCHANGED <<input, stack, depth, hashSeed, step, result, log, atStart>>
    /\ UNCHANGED <<twiceVars, boardVars, iterVars, refVars>>

\* rcs_vals_singularized finds two values with one cell as their only place.
MustShare ==
    /\ pc = "reduce"
    /\ calls # <<>>
    /\ Head(calls).op = "fail_must_share"
    /\ status' = "unsolveable"
    /\ reason' = RcsFailMustShare(IF step[1] = RowValsSingularized THEN "rows"
                                  ELSE IF step[1] = ColValsSingularized THEN "cols"
                                  ELSE "sectors",
                                  step[2], Head(calls).val)
    /\ calls' = <<>>
    /\ pc' = "driver"
    /\ tracer' = TracerDeduce(tracer, Unsolveable(reason'), remaining.board)
    /\ UNCHANGED <<input, stack, depth, remaining, queue, hashSeed, step, result, log,
                   atStart>>
    /\ UNCHANGED <<twiceVars, boardVars, iterVars, refVars>>

\* reduce returned Some(reduced) and reduced.is_solved().
Solved ==
    /\ Saturated
    /\ TrackerIsSolved(remaining)
    /\ result' = SomeBoard(IntoBoard(remaining))
    /\ calls' = <<>>
    /\ pc' = "done"
    /\ UNCHANGED <<input, stack, depth, remaining, queue, hashSeed, step, status, reason, log,
                   atStart, tracer>>
    /\ UNCHANGED <<twiceVars, boardVars, iterVars, refVars>>

\* Variant of the pushes of solve that counts a guess as RowWidth guesses.
RECURSIVE PushAllFar(_, _, _)
PushAllFar(stk, d, choices) ==
    IF choices = <<>> THEN stk
    ELSE PushAllFar(Append(stk, [depth |-> d + RowWidth - 1, tracker |-> Head(choices)]),
                    d, Tail(choices))
\* Variant of the pushes of solve that leaves the first choice on top.
RECURSIVE PushAllBackwards(_, _, _)
PushAllBackwards(stk, d, choices) ==
    IF choices = <<>> THEN stk
    ELSE Append(PushAllBackwards(stk, d, Tail(choices)),
                [depth |-> d, tracker |-> Head(choices)])
RECURSIVE PushAll(_, _, _)
PushAll(stk, d, choices) ==
    IF choices = <<>> THEN stk
    ELSE PushAll(Append(stk, [depth |-> d, tracker |-> Head(choices)]), d, Tail(choices))

\* reduce returned Some(reduced), not solved: push every choice of specify_one.
Branch ==
    /\ Saturated
    /\ ~TrackerIsSolved(remaining)
    /\ calls' = <<>>
    /\ IF FirstMulti(remaining) = -1
       THEN /\ pc' = "panic"
            /\ status' = "panic"
            /\ reason' = Panicked("specify_one")
            /\ UNCHANGED stack
       ELSE /\ pc' = "driver"
            /\ stack' = PushAll(stack, depth + 1, SpecifyOne(remaining))
            /\ UNCHANGED <<status, reason>>
    /\ UNCHANGED <<input, depth, remaining, queue, hashSeed, step, result, log, atStart,
                   tracer>>
    /\ UNCHANGED <<twiceVars, boardVars, iterVars, refVars>>

Next ==
    \/ DriverPop
    \/ DriverExhausted
    \/ StepPop
    \/ EliminateCall
    \/ MustShare
    \/ Solved
    \/ Branch

Spec == Init /\ [][Next]_vars

\* solve called a second time on the same board, once the first call is over.
Restart ==
    /\ pc = "done"
    /\ run = 1
    /\ run' = 2
    /\ log1' = log
    /\ result1' = result
    /\ stack' = <<[depth |-> 0, tracker |-> RemainingTrackerNew(input)]>>
    /\ pc' = "driver"
    /\ depth' = 0
    /\ calls' = <<>>
    /\ status' = "ok"
    /\ reason' = NoReason
    /\ step' = NoStep
    /\ result' = NoResult
    /\ log' = <<>>
    /\ UNCHANGED <<input, remaining, queue, hashSeed, atStart, tracer, boardVars, iterVars,
                   refVars>>

NextTwice ==
    \/ Next
    \/ Restart

InitTests ==
    \E board \in TestBoards :
        /\ InitOn(board)
        /\ remaining = TrackerAllAvailable
        /\ iter = AvailSetIntoIter(AvailSetNone)
        /\ arg = NoArg

SpecTwice == InitTests /\ [][NextTwice]_vars

\* solve on the test boards and on the empty board.
InitWithEmpty ==
    \E board \in TestBoards \cup {EmptyBoard} :
        /\ InitOn(board)
        /\ remaining = TrackerAllAvailable
        /\ iter = AvailSetIntoIter(AvailSetNone)
        /\ arg = NoArg
SpecWithEmpty == InitWithEmpty /\ [][Next]_vars

\* solve's loop with reduce given a Vec<Deduction>, empty at each call.
InitTrace ==
    \E board \in TestBoards :
        /\ InitWith(board, VecDeduction)
        /\ completions = <<>>
        /\ remaining = TrackerAllAvailable
        /\ iter = AvailSetIntoIter(AvailSetNone)
        /\ arg = NoArg

SpecTrace == InitTrace /\ [][Next]_vars

\* The loops of solve and of reduce are sequential code: a step that can be
\* taken is taken.  This is the weak fairness of Next, written without
\* ENABLED: a step of Next can be taken exactly when pc is "driver" or
\* "reduce" (the guards of the actions cover both), so WF_vars(Next) is
\* []<>(pc is "done" or "panic") \/ []<><<Next>>_vars.
Running == pc \in {"driver", "reduce"}
FairNext == []<>(~Running) \/ []<><<Next>>_vars
FairSpec == InitTests /\ [][Next]_vars /\ FairNext

\* ------------------------------------------------------------------------
\* The predicates of Board, called on boards of a wider family.
\* ------------------------------------------------------------------------
\* The empty board with its first three cells pinned or blank.
TripleBoards ==
    {[EmptyBoard EXCEPT ![0] = a, ![1] = b, ![2] = c] : a, b, c \in NoVal..MaxTripleVal}
\* A valid board with two of its rows exchanged.
SwapRows(b, r1, r2) ==
    [coord \in Coords |->
        IF CoordRow(coord) = r1 THEN b[CoordIdx(r2, CoordCol(coord))]
        ELSE IF CoordRow(coord) = r2 THEN b[CoordIdx(r1, CoordCol(coord))]
        ELSE b[coord]]
BoardInputs ==
    Inputs \cup TripleBoards
        \cup {SwapRows(Expected1, 0, 1), SwapRows(Expected1, 0, SectorHeight)}

\* remaining is the tracker built from the board.
InitBoard ==
    \E board \in BoardInputs :
        /\ InitOn(board)
        /\ remaining = RemainingTrackerNew(board)
        /\ iter = AvailSetIntoIter(AvailSetNone)
        /\ arg = NoArg

\* Board::is_solved on the board.
CallIsSolved ==
    /\ called' = "Board::is_solved"
    /\ ret' = BoardIsSolved(input)
    /\ UNCHANGED <<arg, out>>
    /\ UNCHANGED <<solveVars, twiceVars, iterVars, refVars>>

\* Board::known_unsolveable on the board.
CallKnownUnsolveable ==
    /\ called' = "Board::known_unsolveable"
    /\ ret' = BoardKnownUnsolveable(input)
    /\ UNCHANGED <<arg, out>>
    /\ UNCHANGED <<solveVars, twiceVars, iterVars, refVars>>

\* One call of eliminate on the tracker built from the board.
CallEliminate ==
    /\ remaining = RemainingTrackerNew(input)
    /\ \E coord \in 0..MaxPinCell, val \in Vals :
          LET st == Eliminate([remaining |-> remaining, queue |-> queue,
                               status |-> "ok", reason |-> NoReason], coord, val)
          IN /\ remaining' = st.remaining
             /\ queue' = st.queue
             /\ status' = st.status
             /\ reason' = st.reason
             /\ arg' = [coord |-> coord, val |-> val]
             /\ ret' = EliminateRet([remaining |-> remaining, queue |-> queue,
                                      status |-> "ok", reason |-> NoReason], coord, val)
    /\ called' = "eliminate"
    /\ UNCHANGED <<input, stack, pc, depth, hashSeed, step, calls, result, log, out,
                   atStart, tracer>>
    /\ UNCHANGED <<twiceVars, iterVars, refVars>>

\* RemainingTracker::known_unsolveable on the tracker.
CallTrackerKnownUnsolveable ==
    /\ called' = "RemainingTracker::known_unsolveable"
    /\ ret' = KnownUnsolveable(remaining)
    /\ UNCHANGED <<arg, out>>
    /\ UNCHANGED <<solveVars, twiceVars, iterVars, refVars>>

NextBoard ==
    \/ CallIsSolved
    \/ CallKnownUnsolveable
    \/ CallEliminate
    \/ CallTrackerKnownUnsolveable

SpecBoard == InitBoard /\ [][NextBoard]_vars

\* ------------------------------------------------------------------------
\* AvailSetIter, driven from both ends over every set.
\* ------------------------------------------------------------------------
InitIter ==
    /\ InitOn(EmptyBoard)
    /\ remaining = TrackerAllAvailable
    /\ \E s \in 0..AvailSetAll : iter = AvailSetIntoIter(s)
    /\ arg = NoArg

IterNext ==
    LET r == AvailSetIterNext(iter) IN
    /\ iter' = r.iter
    /\ item' = [op |-> "next", val |-> r.ret]
    /\ yielded' = IF r.ret # NoVal THEN AvailSetOrVal(yielded, r.ret) ELSE yielded
    /\ UNCHANGED <<solveVars, twiceVars, boardVars, refVars>>

IterNextBack ==
    LET r == AvailSetIterNextBack(iter) IN
    /\ iter' = r.iter
    /\ item' = [op |-> "next_back", val |-> r.ret]
    /\ yielded' = IF r.ret # NoVal THEN AvailSetOrVal(yielded, r.ret) ELSE yielded
    /\ UNCHANGED <<solveVars, twiceVars, boardVars, refVars>>

NextIter ==
    \/ IterNext
    \/ IterNextBack

SpecIter == InitIter /\ [][NextIter]_vars

\* ------------------------------------------------------------------------
\* AvailCounter::avail, called on every counter with small counts and on
\* the counters of the test avail_counter_to_avail.
\* ------------------------------------------------------------------------
AvailTestCounters ==
    {<<0, 1, 0, 3, 4, 5, 0, 0, 1>>, <<1, 9, 3, 8, 4, 1, 2, 5, 9>>,
     <<0, 0, 0, 0, 0, 0, 0, 0, 0>>}
InitCounter ==
    /\ InitOn(EmptyBoard)
    /\ remaining = TrackerAllAvailable
    /\ iter = AvailSetIntoIter(AvailSetNone)
    /\ \/ arg \in [Vals -> 0..MaxCount]
       \/ arg \in AvailTestCounters

CallAvail ==
    /\ called' = "AvailCounter::avail"
    /\ out' = AvailCounterAvail(arg)
    /\ UNCHANGED <<ret, arg>>
    /\ UNCHANGED <<solveVars, twiceVars, iterVars, refVars>>

NextCounter == CallAvail

SpecCounter == InitCounter /\ [][NextCounter]_vars

\* ------------------------------------------------------------------------
\* FixedSizeIndex, called on every index and every key of every key type.
\* ------------------------------------------------------------------------
\* The keys the constructors of each type build: rows and columns of the
\* board, base rows and base columns that start a sector.
BaseRows == {r \in Rows : RowSectorBase(r) = r}
BaseCols == {c \in Cols : ColSectorBase(c) = c}
SectorKeys == {[base_row |-> RowNew(r), base_col |-> ColNew(c)] : r \in BaseRows, c \in BaseCols}
ValidKeys(type) ==
    CASE type = "Val" -> {ValNew(v) : v \in Vals}
      [] type = "Row" -> {RowNew(r) : r \in Rows}
      [] type = "Col" -> {ColNew(c) : c \in Cols}
      [] type = "Sector" -> SectorKeys
      [] type = "SectorRow" ->
            {[row |-> RowNew(r), base_col |-> ColNew(c)] : r \in Rows, c \in BaseCols}
      [] type = "SectorCol" ->
            {[sector |-> s, rel_col |-> rc] : s \in SectorKeys, rc \in 0..(SectorWidth - 1)}
      [] type = "Coord" -> {[row |-> RowNew(r), col |-> ColNew(c)] : r \in Rows, c \in Cols}

InitKeys ==
    /\ InitOn(EmptyBoard)
    /\ remaining = TrackerAllAvailable
    /\ iter = AvailSetIntoIter(AvailSetNone)
    /\ \E type \in KeyTypes :
          \/ \E i \in 0..(NumIndexes(type) - 1) :
                arg = [type |-> type, from |-> "idx", idx |-> i]
          \/ \E key \in ValidKeys(type) :
                arg = [type |-> type, from |-> "key", key |-> key]

CallFromIdx ==
    /\ arg.from = "idx"
    /\ called' = "from_idx"
    /\ out' = KeyFromIdx(arg.type, arg.idx)
    /\ UNCHANGED <<ret, arg>>
    /\ UNCHANGED <<solveVars, twiceVars, iterVars, refVars>>

CallIdx ==
    /\ arg.from = "key"
    /\ called' = "idx"
    /\ out' = KeyIdx(arg.type, arg.key)
    /\ UNCHANGED <<ret, arg>>
    /\ UNCHANGED <<solveVars, twiceVars, iterVars, refVars>>

CallValues ==
    /\ called' = "values"
    /\ out' = Values(arg.type)
    /\ UNCHANGED <<ret, arg>>
    /\ UNCHANGED <<solveVars, twiceVars, iterVars, refVars>>

NextKeys == CallFromIdx \/ CallIdx \/ CallValues

SpecKeys == InitKeys /\ [][NextKeys]_vars

\* ------------------------------------------------------------------------
\* Coord::neighbors, called on every cell.
\* ------------------------------------------------------------------------
InitNeighbors ==
    /\ InitOn(EmptyBoard)
    /\ remaining = TrackerAllAvailable
    /\ iter = AvailSetIntoIter(AvailSetNone)
    /\ arg \in Coords

CallNeighbors ==
    /\ called' = "neighbors"
    /\ out' = CoordNeighbors(arg)
    /\ UNCHANGED <<ret, arg>>
    /\ UNCHANGED <<solveVars, twiceVars, iterVars, refVars>>

NextNeighbors == CallNeighbors

SpecNeighbors == InitNeighbors /\ [][NextNeighbors]_vars
\* ------------------------------------------------------------------------
\* The Sudoku constraints, stated on boards without the solver's types.
\* ------------------------------------------------------------------------
ZoneCells ==
    {{coord \in Coords : coord \div RowWidth = r} : r \in 0..(RowWidth - 1)}
    \cup {{coord \in Coords : coord % RowWidth = c} : c \in 0..(RowWidth - 1)}
    \cup {{coord \in Coords :
              /\ (coord \div RowWidth) \div SectorHeight = br
              /\ (coord % RowWidth) \div SectorWidth = bc} :
          br \in 0..(SectorsDown - 1), bc \in 0..(SectorsAcross - 1)}
Peers == [coord \in Coords |-> UNION {z \in ZoneCells : coord \in z} \ {coord}]

\* Every cell holds a digit and every row, column and box holds each digit
\* exactly once.
ValidBoard(b) ==
    /\ \A coord \in Coords : b[coord] \in Vals
    /\ \A z \in ZoneCells : \A v \in Vals : Cardinality({coord \in z : b[coord] = v}) = 1
AgreesWith(b, in) == \A coord \in Coords : in[coord] # NoVal => b[coord] = in[coord]
IsCompletionOf(b, in) == ValidBoard(b) /\ AgreesWith(b, in)

\* No two pinned cells of one row, column or box hold the same digit.
NoPinnedDuplicate(b) ==
    \A coord \in Coords : b[coord] # NoVal => \A other \in Peers[coord] : b[other] # b[coord]

\* A reference search, independent of the solver.  Free is what a blank
\* cell's peers leave free; a digit is forced on a blank cell when it is the
\* only free one, or when no other blank cell of one of the cell's zones can
\* take it.
Free(b, coord) == Vals \ {b[other] : other \in Peers[coord]}
FillForced(b) ==
    LET blanks == {coord \in Coords : b[coord] = NoVal}
        free == [coord \in blanks |-> Free(b, coord)]
        forced == [coord \in blanks |->
                     {v \in free[coord] :
                        \/ free[coord] = {v}
                        \/ \E z \in ZoneCells :
                              /\ coord \in z
                              /\ \A other \in (z \cap blanks) \ {coord} : v \notin free[other]}]
        filled == [coord \in Coords |->
                     IF coord \in blanks /\ forced[coord] # {}
                     THEN CHOOSE v \in forced[coord] : TRUE ELSE b[coord]]
    IN [dead |-> \/ \E coord \in blanks : free[coord] = {} \/ Cardinality(forced[coord]) > 1
                 \/ ~NoPinnedDuplicate(filled),
        board |-> filled]
\* Forced digits filled in until nothing changes or a contradiction shows.
RECURSIVE Propagate(_)
Propagate(b) ==
    LET p == FillForced(b) IN
    IF p.dead \/ p.board = b THEN p ELSE Propagate(p.board)

\* The completions of a board, at most cap of them: propagate, then try every
\* free digit of the blank cell that has the fewest.
RECURSIVE Completions(_, _)
RECURSIVE CompletionsWith(_, _, _, _)
Completions(b, cap) ==
    LET p == Propagate(b)
        blanks == {coord \in Coords : p.board[coord] = NoVal}
        cell == CHOOSE coord \in blanks :
                    \A other \in blanks :
                        Cardinality(Free(p.board, coord)) <= Cardinality(Free(p.board, other))
    IN IF cap = 0 \/ p.dead THEN <<>>
       ELSE IF blanks = {} THEN <<p.board>>
       ELSE CompletionsWith(p.board, cell,
                            SelectSeq([i \in 1..ValMax |-> i],
                                      LAMBDA v : v \in Free(p.board, cell)), cap)
CompletionsWith(b, cell, vals, cap) ==
    IF vals = <<>> \/ cap = 0 THEN <<>>
    ELSE LET found == Completions([b EXCEPT ![cell] = Head(vals)], cap) IN
         found \o CompletionsWith(b, cell, Tail(vals), cap - Len(found))

\* Up to two completions of a board, which tells none, one and several
\* apart.  Two boards of the test suite that complete it settle "several"
\* without a search.
ReferenceCompletions(b) ==
    LET known == SelectSeq(<<Expected1, Expected2, Expected3>>,
                           LAMBDA k : IsCompletionOf(k, b))
    IN IF Len(known) >= 2 THEN SubSeq(known, 1, 2)
       ELSE IF NoPinnedDuplicate(b) THEN Completions(b, 2)
       ELSE <<>>

\* ------------------------------------------------------------------------
\* Properties.
\* ------------------------------------------------------------------------
\* The members of a set, read bit by bit.
Members(s) == {v \in Vals : (s \div (2 ^ (v - ValMin))) % 2 = 1}
MembersOf == [s \in 0..AvailSetAll |-> Members(s)]
BlankCells(b) == {coord \in Coords : b[coord] = NoVal}

\* C1: if solve returns a board B, B is a valid completion of the input:
\* every cell of B holds a digit 1..9, every row, column and box of B holds
\* each digit exactly once, and B agrees with the input on every pinned cell.
C1_ReturnedBoardIsCompletion ==
    (pc = "done" /\ result.some) => IsCompletionOf(result.board, input)
\* solve returned a board for an input with blank cells, after branching.
C1_Witness ==
    /\ pc = "done"
    /\ result.some
    /\ BlankCells(input) # {}
    /\ depth > 0

\* C2: solve returns a board if and only if the input has a valid completion;
\* it returns none when two pinned cells of one row, column or box hold the
\* same digit, and it returns a board for the empty board.
C2_ReturnsIffCompletionExists ==
    pc = "done" =>
        /\ result.some <=> Len(ReferenceCompletions(input)) > 0
        /\ ~NoPinnedDuplicate(input) => ~result.some
        /\ input = EmptyBoard => result.some
\* solve returned none, after branching, for an input whose pinned cells do
\* not clash.
C2_Witness ==
    /\ pc = "done"
    /\ depth > 0
    /\ ~result.some
    /\ NoPinnedDuplicate(input)
    /\ Len(ReferenceCompletions(input)) = 0

\* C3: for an input with exactly one valid completion solve returns that
\* completion, as the tests of puzzles 1, 2 and 3 assert.
C3_UniqueCompletionReturned ==
    pc = "done" =>
        /\ Len(ReferenceCompletions(input)) = 1
              => result = SomeBoard(ReferenceCompletions(input)[1])
        /\ input = Puzzle1 => result = SomeBoard(Expected1)
        /\ input = Puzzle2 => result = SomeBoard(Expected2)
        /\ input = Puzzle3 => result = SomeBoard(Expected3)
\* solve returned the only completion of an input, after branching.
C3_Witness ==
    /\ pc = "done"
    /\ depth > 0
    /\ Len(ReferenceCompletions(input)) = 1
    /\ result = SomeBoard(ReferenceCompletions(input)[1])

\* C4: for a fully filled valid board S, solve(S) returns S without any
\* branching: the first reduce call saturates in the solved state and
\* eliminates no digit.
C4_SolvedBoardUnchanged ==
    ValidBoard(input) =>
        /\ pc # "panic"
        /\ stack # <<>> => (pc = "driver" /\ log = <<>>)
        /\ depth = 0
        /\ log # <<>> => remaining = RemainingTrackerNew(input)
        /\ Saturated => TrackerIsSolved(remaining)
        /\ pc = "done" => result = SomeBoard(input)
\* solve returned on a fully filled valid board.
C4_Witness ==
    /\ pc = "done"
    /\ ValidBoard(input)
    /\ result = SomeBoard(input)

C6_Terminates ==
    /\ (pc = "reduce") ~> (Saturated \/ (pc = "driver" /\ status = "unsolveable"))
    /\ <>(pc = "done" /\ (result.some \/ stack = <<>>))
\* The driver loop ended with an empty stack after reduce calls that aborted
\* below the first tracker.
C6_Witness ==
    /\ pc = "done"
    /\ ~result.some
    /\ stack = <<>>
    /\ depth > 0

\* The cells of every zone, by the name of the tracker's field for the zone.
ZoneCoordsOf ==
    [rows |-> [r \in Rows |-> RowCoords(r)],
     cols |-> [c \in Cols |-> ColCoords(c)],
     sectors |-> [sec \in Sectors |-> SectorCoords(sec)],
     sector_rows |-> [sr \in SectorRows |-> SectorRowCoords(sr)],
     sector_cols |-> [sc \in SectorCols |-> SectorColCoords(sc)]]

\* The consistency law of a tracker: the count a zone stores for a digit is
\* the number of the zone's cells whose set holds the digit.
Consistent(tracker) ==
    \A field \in DOMAIN ZoneCoordsOf :
       \A z \in DOMAIN ZoneCoordsOf[field] :
          LET cells == ZoneCoordsOf[field][z]
              has == [i \in DOMAIN cells |-> MembersOf[tracker.board[cells[i]]]]
          IN \A v \in Vals :
                tracker[field][z][v] = Cardinality({i \in DOMAIN cells : v \in has[i]})

\* C7 as stated: the consistency law holds for the tracker built from any
\* input board and after every reducer step and every single-value
\* elimination, those that abort included.
C7_ConsistentAlways == Consistent(remaining)

\* C7: the consistency law holds for the tracker built from any input board,
\* for every tracker popped from the search stack, and after every reducer
\* step and every single-value elimination that does not abort.
C7_ConsistentUnlessAborted ==
    /\ log = <<>> => Consistent(RemainingTrackerNew(input))
    /\ status = "ok" => Consistent(remaining)
\* An elimination that did not abort has changed the tracker of a guess.
C7_Witness ==
    /\ pc = "reduce"
    /\ status = "ok"
    /\ depth > 0
    /\ LET visits == SelectSeq(log, LAMBDA e : e.ev = "visit")
       IN remaining # visits[Len(visits)].at

\* C8: Board::is_solved(b) is true exactly when every row, column and box of
\* the tracker built from b has count 1 for each digit, that is when b has no
\* blank cell and every row, column and box of b holds each digit exactly
\* once; a board with a blank cell is never reported solved.
C8_IsSolvedExact ==
    called = "Board::is_solved" =>
        /\ ret <=> \A field \in {"rows", "cols", "sectors"} :
                      \A z \in DOMAIN RemainingTrackerNew(input)[field] :
                         \A v \in Vals : RemainingTrackerNew(input)[field][z][v] = 1
        /\ ret <=> ValidBoard(input)
        /\ BlankCells(input) # {} => ~ret
\* is_solved answered no on a board without blank cells.
C8_Witness ==
    /\ called = "Board::is_solved"
    /\ ~ret
    /\ BlankCells(input) = {}

\* What C9 says known_unsolveable computes.
KnownUnsolveableLaw(tracker) ==
    \/ \E coord \in Coords : Members(tracker.board[coord]) = {}
    \/ \E field \in {"rows", "cols", "sectors"} :
          \E z \in DOMAIN tracker[field] :
             Cardinality({v \in Vals : tracker[field][z][v] > 0}) < ValMax

\* C9: known_unsolveable on a tracker is true exactly when some cell has an
\* empty set or some row, column or box has fewer than 9 digits with a
\* positive count; sector-rows and sector-cols are not consulted.
C9_KnownUnsolveableExact ==
    /\ called = "RemainingTracker::known_unsolveable"
          => (ret <=> KnownUnsolveableLaw(remaining))
    /\ called = "Board::known_unsolveable"
          => (ret <=> KnownUnsolveableLaw(RemainingTrackerNew(input)))
\* known_unsolveable answered yes on a tracker with an empty cell.
C9_Witness ==
    /\ called = "RemainingTracker::known_unsolveable"
    /\ ret
    /\ reason.kind = "Empty"
    /\ \E coord \in Coords : AvailSetIsEmpty(remaining.board[coord])

\* The members the iterator has not yielded yet.
NotYielded(it, done) == Members(it.set) \ Members(done)
Least(set) == CHOOSE v \in set : \A w \in set : v <= w
Greatest(set) == CHOOSE v \in set : \A w \in set : v >= w

\* C10: after any interleaving of next and next_back, next yields the
\* smallest member not yet yielded and next_back the largest, no member is
\* yielded twice, len() is the number of members not yet yielded, and an
\* iterator that has returned none keeps returning none.
C10_IterIsDeque ==
    [][LET left == NotYielded(iter, yielded) IN
       /\ AvailSetIterLen(iter) = Cardinality(left)
       /\ AvailSetIterLen(iter') = Cardinality(NotYielded(iter', yielded'))
       /\ item'.op = "next"
             => item'.val = IF left = {} THEN NoVal ELSE Least(left)
       /\ item'.op = "next_back"
             => item'.val = IF left = {} THEN NoVal ELSE Greatest(left)
       /\ item'.val # NoVal => item'.val \notin Members(yielded)
       /\ (item.op # "none" /\ item.val = NoVal) => item'.val = NoVal]_vars
\* next_back yielded a member after next had yielded one, with members left
\* between the two ends, on the set of the test availset_iter_size.
C10_Witness ==
    /\ iter.set = IterSizeTestSet
    /\ item.op = "next_back"
    /\ item.val # NoVal
    /\ iter.start > 0
    /\ Cardinality(Members(yielded)) >= 2
    /\ AvailSetIterLen(iter) > 0

\* C11: for every counter, avail() is exactly the set of the digits whose
\* count is greater than 0; the test's counters give the test's sets.
C11_AvailIsPositiveCounts ==
    called = "AvailCounter::avail" =>
        /\ out \in 0..AvailSetAll
        /\ Members(out) = {v \in Vals : arg[v] > 0}
        /\ arg = <<0, 1, 0, 3, 4, 5, 0, 0, 1>> => Members(out) = {2, 4, 5, 6, 9}
        /\ arg = <<1, 9, 3, 8, 4, 1, 2, 5, 9>> => out = AvailSetAll
\* avail was called on a counter with a zero count, a count of one and a
\* larger count.
C11_Witness ==
    /\ called = "AvailCounter::avail"
    /\ \E u, v, w \in Vals : arg[u] = 0 /\ arg[v] = 1 /\ arg[w] > 1
    /\ Members(out) # {}
    /\ Members(out) # Vals

\* C12: for every key type idx and from_idx are inverse bijections between
\* the keys of the type and 0..NUM_INDEXES-1, and values() lists every key
\* once in strictly increasing flat-index order, the k-th value having
\* index k; the cells come row by row, each row left to right.
C12_IdxFromIdxInverse ==
    /\ called = "from_idx" =>
          /\ out \in ValidKeys(arg.type)
          /\ KeyIdx(arg.type, out) = arg.idx
    /\ called = "idx" =>
          /\ out \in 0..(NumIndexes(arg.type) - 1)
          /\ KeyFromIdx(arg.type, out) = arg.key
    /\ called = "values" =>
          /\ Len(out) = NumIndexes(arg.type)
          /\ Range(out) = ValidKeys(arg.type)
          /\ \A k \in 1..Len(out) : KeyIdx(arg.type, out[k]) = k - 1
          /\ \A j, k \in 1..Len(out) :
                j < k => KeyIdx(arg.type, out[j]) < KeyIdx(arg.type, out[k])
          /\ arg.type = "Coord" =>
                \A j, k \in 1..Len(out) :
                   j < k <=> \/ out[j].row.inner < out[k].row.inner
                             \/ /\ out[j].row.inner = out[k].row.inner
                                /\ out[j].col.inner < out[k].col.inner
\* idx was called on the last column of the middle sector.
C12_Witness ==
    /\ called = "idx"
    /\ arg.type = "SectorCol"
    /\ arg.key.sector = [base_row |-> RowNew(SectorHeight), base_col |-> ColNew(SectorWidth)]
    /\ arg.key.rel_col = SectorWidth - 1
    /\ out = SectorColIdx(SectorsAcross + 1, SectorWidth - 1)

\* C13: neighbors(c) yields exactly 20 distinct cells, the other cells of
\* the row of c, then the other cells of its column, then the cells of its
\* box in neither; together every other cell sharing a row, column or box
\* with c, each once, and never c.
C13_TwentyNeighbors ==
    called = "neighbors" =>
        LET rowPeers == RowWidth - 1
            linePeers == 2 * (RowWidth - 1)
            sameRow(a, b) == a \div RowWidth = b \div RowWidth
            sameCol(a, b) == a % RowWidth = b % RowWidth
        IN /\ Len(out) = linePeers + (SectorHeight - 1) * (SectorWidth - 1)
           /\ Len(out) = 20
           /\ \A j, k \in 1..Len(out) : j # k => out[j] # out[k]
           /\ Range(out) = Peers[arg]
           /\ arg \notin Range(out)
           /\ \A k \in 1..Len(out) :
                 /\ k <= rowPeers => sameRow(out[k], arg)
                 /\ (k > rowPeers /\ k <= linePeers) => sameCol(out[k], arg)
                 /\ k > linePeers => ~sameRow(out[k], arg) /\ ~sameCol(out[k], arg)
\* neighbors was called on the centre cell of the board.
C13_Witness ==
    /\ called = "neighbors"
    /\ arg = CoordIdx(RowWidth \div 2, RowWidth \div 2)
    /\ Len(out) > 0

\* The steps the five rules could be applied at: CellSingular at every
\* singular cell, the zone rule at every row, column and box, LineSizeMatch
\* at every box-line with as many digits available as it has cells, and
\* the two hint rules at every box-line.
RuleSteps(tracker) ==
    {<<CoordSingularized, c>> : c \in {c \in Coords : CountOnes(tracker.board[c]) = 1}}
    \cup {<<RowValsSingularized, z>> : z \in Rows}
    \cup {<<ColValsSingularized, z>> : z \in Cols}
    \cup {<<SecValsSingularized, z>> : z \in Sectors}
    \cup {<<SecRowTripleized, z>> :
            z \in {z \in SectorRows :
                      Cardinality({v \in Vals : tracker.sector_rows[z][v] > 0}) = SectorWidth}}
    \cup {<<SecColTripleized, z>> :
            z \in {z \in SectorCols :
                      Cardinality({v \in Vals : tracker.sector_cols[z][v] > 0}) = SectorHeight}}
    \cup {<<RowOnlySec, z>> : z \in SectorRows}
    \cup {<<SecOnlyRow, z>> : z \in SectorRows}
    \cup {<<ColOnlySec, z>> : z \in SectorCols}
    \cup {<<SecOnlyCol, z>> : z \in SectorCols}
\* The rule at step s neither aborts nor removes a digit from a cell.
RuleIdle(tracker, s) ==
    LET h == StepCalls(tracker, s) IN
    /\ ~h.panic
    /\ \A i \in 1..Len(h.calls) :
          /\ h.calls[i].op = "eliminate"
          /\ h.calls[i].val \notin Members(tracker.board[h.calls[i].coord])

\* C14: when reduce finds its queue empty and returns Ok, the tracker is a
\* fixed point of the five rules: each of them, applied wherever it
\* applies, removes no digit from any cell and does not abort.
C14_SaturatedIsFixedPoint ==
    Saturated => \A s \in RuleSteps(remaining) : RuleIdle(remaining, s)
\* reduce saturated after eliminating digits, on a board it did not solve.
C14_Witness ==
    /\ Saturated
    /\ remaining # RemainingTrackerNew(input)
    /\ \E c \in Coords : CountOnes(remaining.board[c]) > 1
    /\ \E c \in Coords : CountOnes(remaining.board[c]) = 1

\* C15: eliminate(c, d) with d not in the cell c is a no-op: it returns
\* Ok(false), every cell and every zone counter stays as it was, no step is
\* enqueued and the reducer does not abort.
C15_AbsentIsNoOp ==
    [][(/\ called' = "eliminate"
        /\ arg'.val \notin Members(remaining.board[arg'.coord]))
       => /\ ret' = FALSE
          /\ remaining' = remaining
          /\ queue' = queue
          /\ status' = "ok"
          /\ reason' = NoReason]_vars
\* eliminate returned Ok(false) for a digit its cell did not hold.
C15_Witness ==
    /\ called = "eliminate"
    /\ arg.val \notin Members(RemainingTrackerNew(input).board[arg.coord])
    /\ ret = FALSE
    /\ status = "ok"

\* The call of eliminate a handler is about to make, and its arguments.
AtEliminate == pc = "reduce" /\ calls # <<>> /\ Head(calls).op = "eliminate"
ElimCoord == Head(calls).coord
ElimVal == Head(calls).val
Pending(q) == Range(q.pending)

\* C16: eliminate(c, d) with d in the cell c removes d from that cell and
\* from no other; when the cell becomes empty the reducer aborts with
\* reason Empty at c and no zone counter has changed; when the cell becomes
\* singular the step CoordSingularized(c) is pending afterwards.
C16_CellElimination ==
    [][(AtEliminate /\ ElimVal \in Members(remaining.board[ElimCoord]))
       => LET left == Members(remaining'.board[ElimCoord]) IN
          /\ left = Members(remaining.board[ElimCoord]) \ {ElimVal}
          /\ \A c \in Coords \ {ElimCoord} : remaining'.board[c] = remaining.board[c]
          /\ left = {} =>
                /\ status' = "unsolveable"
                /\ reason' = Reason("Empty", ElimCoord)
                /\ pc' = "driver"
                /\ \A field \in {"rows", "cols", "sectors", "sector_rows", "sector_cols"} :
                      remaining'[field] = remaining[field]
          /\ left # {} => ~(status' = "unsolveable" /\ reason'.kind = "Empty")
          /\ Cardinality(left) = 1 => <<CoordSingularized, ElimCoord>> \in Pending(queue')
       ]_vars
\* The reducer aborted because an elimination emptied a cell.
C16_Witness ==
    /\ status = "unsolveable"
    /\ reason.kind = "Empty"
    /\ pc = "driver"
    /\ Members(remaining.board[reason.pos]) = {}

\* The row, column and sector of the cell eliminate is called on.
ElimZone(field) ==
    IF field = "rows" THEN CoordRow(ElimCoord)
    ELSE IF field = "cols" THEN CoordCol(ElimCoord)
    ELSE CoordSector(ElimCoord)

\* C17: when an elimination decrements the count of digit d in a row,
\* column or sector: a resulting count of 0 aborts the reducer with the
\* reason that the zone is missing d; a resulting count of 1 leaves the
\* zone's singularised step pending; any other resulting count enqueues
\* nothing for the zone.
C17_ZoneCountDecrement ==
    [][AtEliminate =>
         \A field \in {"rows", "cols", "sectors"} :
            LET z == ElimZone(field)
                n == remaining'[field][z][ElimVal]
            IN n = remaining[field][z][ElimVal] - 1 =>
                 /\ n = 0 => /\ status' = "unsolveable"
                             /\ reason' = RcsFailMissingVal(field, z, ElimVal)
                             /\ pc' = "driver"
                 /\ n # 0 => ~(/\ status' = "unsolveable"
                               /\ reason' = RcsFailMissingVal(field, z, ElimVal))
                 /\ n = 1 => RcsVisit(field, z) \in Pending(queue')
                 /\ n > 1 => (RcsVisit(field, z) \in Pending(queue')
                                 => RcsVisit(field, z) \in Pending(queue))
      ]_vars
\* The reducer aborted because a zone lost the last place of a digit.
C17_Witness ==
    /\ status = "unsolveable"
    /\ pc = "driver"
    /\ \E field \in {"rows", "cols", "sectors"} :
          /\ reason = RcsFailMissingVal(field, reason.pos, reason.val)
          /\ remaining[field][reason.pos][reason.val] = 0

\* The sector-row and the sector-col of the cell eliminate is called on.
ElimLine(field) ==
    IF field = "sector_rows" THEN CoordSectorRow(ElimCoord) ELSE CoordSectorCol(ElimCoord)
\* The number of digits with a positive count.
NumAvailable(cnt) == Cardinality({v \in Vals : cnt[v] > 0})

\* C18: when an elimination brings the count of digit d in a sector-row or
\* sector-col L to 0: with fewer than 3 digits left available in L the
\* reducer aborts with the reason that L has too few values; with exactly 3
\* LineSizeMatch(L) is pending afterwards; when the count stays above 0
\* there is neither that abort nor a new LineSizeMatch(L).
C18_LineCountToZero ==
    [][AtEliminate =>
         \A field \in {"sector_rows", "sector_cols"} :
            LET L == ElimLine(field)
                n == remaining'[field][L][ElimVal]
                tooFew == /\ status' = "unsolveable"
                          /\ reason' = SrscFailTooFewVals(field, L)
            IN n = remaining[field][L][ElimVal] - 1 =>
                 /\ (n = 0 /\ NumAvailable(remaining'[field][L]) < 3) => tooFew /\ pc' = "driver"
                 /\ (n = 0 /\ NumAvailable(remaining'[field][L]) = 3) =>
                       ~tooFew /\ VisitSizeMatch(field, L) \in Pending(queue')
                 /\ n > 0 =>
                       /\ ~tooFew
                       /\ VisitSizeMatch(field, L) \in Pending(queue')
                             => VisitSizeMatch(field, L) \in Pending(queue)
      ]_vars
\* The reducer aborted because a sector-row or sector-col was left with
\* fewer digits than cells.
C18_Witness ==
    /\ status = "unsolveable"
    /\ pc = "driver"
    /\ \E field \in {"sector_rows", "sector_cols"} :
          /\ reason = SrscFailTooFewVals(field, reason.pos)
          /\ NumAvailable(remaining[field][reason.pos]) < 3

\* The cells of a sector-row or sector-col, from its flat index alone, and
\* its neighbours: the other lines of its kind within the same row or
\* column, and the other lines of its kind within the same box.
RowOf(c) == c \div RowWidth
ColOf(c) == c % RowWidth
BoxOf(c) == (RowOf(c) \div SectorHeight) * (RowWidth \div SectorWidth) + (ColOf(c) \div SectorWidth)
LineCells(field, L) ==
    IF field = "sector_rows"
    THEN {c \in Coords : RowOf(c) = L \div 3 /\ ColOf(c) \div 3 = L % 3}
    ELSE {c \in Coords : BoxOf(c) = L \div 3 /\ ColOf(c) % 3 = L % 3}
LineFields == {"sector_rows", "sector_cols"}
LineIndexes == 0..(SectorRowNumIndexes - 1)
LineNeighbours ==
    [field \in LineFields |-> [L \in LineIndexes |->
        {N \in LineIndexes \ {L} :
            \E a \in LineCells(field, L), b \in LineCells(field, N) :
               IF field = "sector_rows" THEN RowOf(a) = RowOf(b) ELSE ColOf(a) = ColOf(b)}]]
BoxNeighbours ==
    [field \in LineFields |-> [L \in LineIndexes |->
        {N \in LineIndexes \ {L} :
            \E a \in LineCells(field, L), b \in LineCells(field, N) : BoxOf(a) = BoxOf(b)}]]
\* The row or column, and the box, that hold line N.
LineOfLine ==
    [field \in LineFields |-> [N \in LineIndexes |->
        LET c == CHOOSE c \in LineCells(field, N) : TRUE IN
        IF field = "sector_rows" THEN RowOf(c) ELSE ColOf(c)]]
BoxOfLine ==
    [field \in LineFields |-> [N \in LineIndexes |->
        BoxOf(CHOOSE c \in LineCells(field, N) : TRUE)]]
LineCountOf(tracker, field, N) ==
    IF field = "sector_rows" THEN tracker.rows[LineOfLine[field][N]]
    ELSE tracker.cols[LineOfLine[field][N]]
BoxCountOf(tracker, field, N) == tracker.sectors[BoxOfLine[field][N]]
\* The elimination went through and decremented the count of line L.
Decremented(field, L) ==
    /\ AtEliminate
    /\ status' = "ok"
    /\ remaining'[field][L][ElimVal] = remaining[field][L][ElimVal] - 1

\* C19 as stated: after an elimination has decremented box-line L without
\* aborting, every line neighbour N of L whose count of some digit equals
\* the count of that digit in N's row or column has LineOnlyInLine(N)
\* pending, and every box neighbour N whose count of some digit equals the
\* box's count of that digit has LineOnlyInBox(N) pending.
C19_HintsPendingForAnyDigit ==
    [][\A field \in LineFields :
          Decremented(field, ElimLine(field)) =>
             /\ \A N \in LineNeighbours[field][ElimLine(field)] :
                   (\E v \in Vals :
                       remaining'[field][N][v] = LineCountOf(remaining', field, N)[v])
                      => VisitOnlyInLine(field, N) \in Pending(queue')
             /\ \A N \in BoxNeighbours[field][ElimLine(field)] :
                   (\E v \in Vals :
                       remaining'[field][N][v] = BoxCountOf(remaining', field, N)[v])
                      => VisitOnlyInSec(field, N) \in Pending(queue')
      ]_vars

\* C19, for the digit that was eliminated: after an elimination of digit d
\* has decremented box-line L without aborting, every line neighbour N of L
\* whose count of d equals the count of d in N's row or column has
\* LineOnlyInLine(N) pending, and every box neighbour N whose count of d
\* equals the box's count of d has LineOnlyInBox(N) pending; a neighbour
\* for which neither L's count reached 0 nor the equality holds for d gets
\* no new step.
C19_HintsPendingForEliminatedDigit ==
    [][\A field \in LineFields :
          LET L == ElimLine(field) IN
          Decremented(field, L) =>
             /\ Cardinality(LineNeighbours[field][L]) = 2
             /\ Cardinality(BoxNeighbours[field][L]) = 2
             /\ \A N \in LineNeighbours[field][L] :
                   LET equal == remaining'[field][N][ElimVal]
                                   = LineCountOf(remaining', field, N)[ElimVal]
                       s == VisitOnlyInLine(field, N)
                   IN /\ equal => s \in Pending(queue')
                      /\ equal => remaining'[field][L][ElimVal] = 0
                      /\ (~equal /\ s \in Pending(queue')) => s \in Pending(queue)
             /\ \A N \in BoxNeighbours[field][L] :
                   LET equal == remaining'[field][N][ElimVal]
                                   = BoxCountOf(remaining', field, N)[ElimVal]
                       s == VisitOnlyInSec(field, N)
                   IN /\ equal => s \in Pending(queue')
                      /\ equal => remaining'[field][L][ElimVal] = 0
                      /\ (~equal /\ s \in Pending(queue')) => s \in Pending(queue)
      ]_vars
\* The tracker the running reducer was built on: the last one the driver
\* popped.
StartTracker ==
    LET visits == {i \in DOMAIN log : log[i].ev = "visit"}
        last == CHOOSE i \in visits : \A j \in visits : j <= i
    IN log[last].at
\* Eliminations brought the count of a digit in a box-line to 0, and a line
\* neighbour that now holds every place of the digit in its row or column
\* has its hint step pending, which the reducer did not start with.
C19_Witness ==
    /\ pc = "reduce"
    /\ status = "ok"
    /\ \E field \in LineFields, L \in LineIndexes, d \in Vals :
          /\ remaining[field][L][d] = 0
          /\ StartTracker[field][L][d] > 0
          /\ \E N \in LineNeighbours[field][L] :
                /\ remaining[field][N][d] = LineCountOf(remaining, field, N)[d]
                /\ VisitOnlyInLine(field, N) \in Pending(queue)
                /\ VisitOnlyInLine(field, N) \notin Pending(BuildQueue(StartTracker))

\* The order of the steps: the ordinal of the variant, then the flat index
\* of the target.
Smaller(s, t) == s[1] < t[1] \/ (s[1] = t[1] /\ s[2] < t[2])

\* C20: pop returns a pending step such that no pending step is smaller in
\* the order by variant and then by flat index of the target, and removes
\* that step alone; this covers the pops at which some pending steps were
\* pushed while earlier steps were processed.
C20_PopsSmallest ==
    [][(pc = "reduce" /\ calls = <<>> /\ queue.pending # <<>>)
       => /\ step' \in Pending(queue)
          /\ \A s \in Pending(queue) : ~Smaller(s, step')
          /\ Pending(queue') = Pending(queue) \ {step'}
          /\ Len(queue'.pending) = Len(queue.pending) - 1]_vars
\* pop returned a step smaller than the step popped just before it, so one
\* that was pushed while that step was processed, with larger steps pending.
C20_Witness ==
    /\ pc = "reduce"
    /\ \E i \in DOMAIN log :
          /\ i + 1 \in DOMAIN log
          /\ log[i].ev = "step"
          /\ log[i + 1].ev = "step"
          /\ Smaller(log[i + 1].at, log[i].at)
          /\ i + 1 = Len(log)
          /\ step = log[i + 1].at
          /\ \E s \in Pending(queue) : Smaller(step, s)

\* The loop of reduce is about to pop a step.
AtPop == pc = "reduce" /\ calls = <<>> /\ queue.pending # <<>>
\* The rule of a step, numbered in the priority order cell singular, zone
\* singular, line size match, line only in line, line only in box.
RuleOf(s) ==
    IF s[1] = CoordSingularized THEN 0
    ELSE IF s[1] \in {RowValsSingularized, ColValsSingularized, SecValsSingularized} THEN 1
    ELSE IF s[1] \in {SecRowTripleized, SecColTripleized} THEN 2
    ELSE IF s[1] \in {RowOnlySec, ColOnlySec} THEN 3
    ELSE 4
\* The same with the two hint rules of the box-rows ahead of the two hint
\* rules of the box-columns.
RuleByLineKindOf(s) ==
    IF s[1] \in {RowOnlySec, SecOnlyRow} THEN 3
    ELSE IF s[1] \in {ColOnlySec, SecOnlyCol} THEN 4
    ELSE RuleOf(s)
IsBoxRowStep(s) == s[1] \in {SecRowTripleized, RowOnlySec, SecOnlyRow}

\* C21 as stated: the step popped is of the first rule, in the order cell
\* singular, zone singular, line size match, line only in line, line only
\* in box, that has a step pending; a LineOnlyInLine step pending together
\* with a LineOnlyInBox step is popped first, for box-rows and box-columns
\* alike.
C21_PoppedByRuleKind ==
    [][AtPop => \A s \in Pending(queue) : RuleOf(step') <= RuleOf(s)]_vars

\* C21, in the order of the variants: cell singular, zone singular and line
\* size match steps are popped before every hint step; among the hint
\* steps those of the box-rows are popped before those of the box-columns,
\* and among the hint steps of the box-rows, or of the box-columns, a
\* LineOnlyInLine step is popped before a LineOnlyInBox step.
C21_PoppedByVariantOrder ==
    [][AtPop =>
         \A s \in Pending(queue) :
            /\ RuleByLineKindOf(step') <= RuleByLineKindOf(s)
            /\ (RuleOf(s) >= 3 /\ RuleOf(step') >= 3 /\ IsBoxRowStep(s) = IsBoxRowStep(step'))
                  => RuleOf(step') <= RuleOf(s)]_vars
\* A LineOnlyInBox step of a box-row was popped while a LineOnlyInLine step
\* of a box-column was pending.
C21_Witness ==
    /\ pc = "reduce"
    /\ step[1] = SecOnlyRow
    /\ \E s \in Pending(queue) : s[1] = ColOnlySec

\* The steps the seeding is to enqueue for a tracker.
SeedSteps(tracker) ==
    {<<CoordSingularized, c>> : c \in {c \in Coords : Cardinality(Members(tracker.board[c])) = 1}}
    \cup {<<RowValsSingularized, z>> : z \in {z \in Rows : \E v \in Vals : tracker.rows[z][v] = 1}}
    \cup {<<ColValsSingularized, z>> : z \in {z \in Cols : \E v \in Vals : tracker.cols[z][v] = 1}}
    \cup {<<SecValsSingularized, z>> :
            z \in {z \in Sectors : \E v \in Vals : tracker.sectors[z][v] = 1}}
    \cup {<<SecRowTripleized, L>> :
            L \in {L \in LineIndexes : NumAvailable(tracker.sector_rows[L]) = 3}}
    \cup {<<SecColTripleized, L>> :
            L \in {L \in LineIndexes : NumAvailable(tracker.sector_cols[L]) = 3}}
    \cup {VisitOnlyInLine(fl[1], fl[2]) :
            fl \in {fl \in LineFields \X LineIndexes :
                      \E v \in Vals :
                         tracker[fl[1]][fl[2]][v] = LineCountOf(tracker, fl[1], fl[2])[v]}}
    \cup {VisitOnlyInSec(fl[1], fl[2]) :
            fl \in {fl \in LineFields \X LineIndexes :
                      \E v \in Vals :
                         tracker[fl[1]][fl[2]][v] = BoxCountOf(tracker, fl[1], fl[2])[v]}}
\* build_queue has run and the loop of reduce has popped nothing yet.
Seeded == pc = "reduce" /\ step = NoStep

\* C22: after build_queue and before the first pop the pending steps are
\* exactly: CellSingular of every singular cell, the zone step of every
\* row, column and box with a digit of count 1, LineSizeMatch of every
\* box-line with 3 digits available, LineOnlyInLine of every box-line with
\* a digit whose count equals its count in the line's row or column, and
\* LineOnlyInBox of every box-line with a digit whose count equals its
\* count in the line's box; each of them once.
C22_InitialSeeding ==
    Seeded =>
        /\ Pending(queue) = SeedSteps(remaining)
        /\ Len(queue.pending) = Cardinality(SeedSteps(remaining))
        /\ queue.dedup = SeedSteps(remaining)
\* The queue was seeded with steps of all five rules, and not with the step
\* of every cell.
C22_Witness ==
    /\ Seeded
    /\ \A rule \in 0..4 : \E s \in Pending(queue) : RuleOf(s) = rule
    /\ \E c \in Coords : <<CoordSingularized, c>> \notin Pending(queue)
    /\ \E L \in LineIndexes : <<RowOnlySec, L>> \notin Pending(queue)

\* The handler of the step popped last is running or has returned Ok.
InStep(kinds) == pc = "reduce" /\ step # NoStep /\ step[1] \in kinds
\* The handler of the step popped last has returned Ok.
StepDone == pc = "reduce" /\ step # NoStep /\ calls = <<>>
\* The call of eliminate about to be made returns Err: it empties the cell,
\* or takes the last place of the value in the row, column or sector, or
\* takes the last place of the value in a sector-row or sector-col that has
\* no value to spare.
ElimAborts ==
    \/ Members(remaining.board[ElimCoord]) = {ElimVal}
    \/ \E field \in {"rows", "cols", "sectors"} : remaining[field][ElimZone(field)][ElimVal] = 1
    \/ \E field \in LineFields :
          /\ remaining[field][ElimLine(field)][ElimVal] = 1
          /\ NumAvailable(remaining[field][ElimLine(field)]) <= 3

\* C23: a CoordSingularized step on a cell c whose single value is d keeps c
\* at {d}, makes only eliminations of d from neighbours of c, and once its
\* handler has returned Ok d is in none of the 20 neighbours of c; the step
\* aborts exactly when one of the eliminations it makes aborts.
C23_CoordSingularized ==
    [][/\ InStep({CoordSingularized})' =>
             LET c == step'[2]
                 d == AvailSetGetSingle(atStart'.board[c])
             IN /\ d \in Vals
                /\ remaining'.board[c] = AvailSetOnly(d)
                /\ Cardinality(Peers[c]) = 20
                /\ calls' # <<>> => /\ Head(calls').op = "eliminate"
                                    /\ Head(calls').coord \in Peers[c]
                                    /\ Head(calls').val = d
                /\ calls' = <<>> => \A n \in Peers[c] : d \notin MembersOf[remaining'.board[n]]
       /\ (AtPop /\ step'[1] = CoordSingularized) => pc' = "reduce"
       /\ (InStep({CoordSingularized}) /\ calls # <<>>) =>
             /\ (pc' # "reduce") = ElimAborts
             /\ ElimAborts => (pc' = "driver" /\ status' = "unsolveable")
      ]_vars
\* A CoordSingularized handler has returned Ok after eliminating its value
\* from a neighbour in the row, one in the column and one in the sector only.
C23_Witness ==
    /\ StepDone
    /\ step[1] = CoordSingularized
    /\ LET c == step[2]
           d == AvailSetGetSingle(atStart.board[c])
           lost == {n \in Peers[c] : d \in MembersOf[atStart.board[n]]}
       IN /\ \E n \in lost : RowOf(n) = RowOf(c)
          /\ \E n \in lost : ColOf(n) = ColOf(c)
          /\ \E n \in lost : RowOf(n) # RowOf(c) /\ ColOf(n) # ColOf(c)
\* A CoordSingularized step was aborted by one of its eliminations.
C23_WitnessAbort ==
    /\ pc = "driver"
    /\ status = "unsolveable"
    /\ step # NoStep
    /\ step[1] = CoordSingularized

\* The steps on a row, column or sector, the tracker field of the zone of
\* such a step, and the cells of the zone.
RcsKinds == {RowValsSingularized, ColValsSingularized, SecValsSingularized}
RcsFieldOf(s) ==
    IF s[1] = RowValsSingularized THEN "rows"
    ELSE IF s[1] = ColValsSingularized THEN "cols" ELSE "sectors"
RcsCellsOf(s) ==
    {c \in Coords : (IF s[1] = RowValsSingularized THEN RowOf(c)
                      ELSE IF s[1] = ColValsSingularized THEN ColOf(c) ELSE BoxOf(c)) = s[2]}
\* The digits with exactly one place in the zone of s, in the tracker.
SinglesOf(tracker, s) == {v \in Vals : tracker[RcsFieldOf(s)][s[2]][v] = 1}
\* Some cell of the zone of s holds two or more of these digits.
SharedIn(tracker, s) ==
    \E c \in RcsCellsOf(s) :
        Cardinality(Members(tracker.board[c]) \cap SinglesOf(tracker, s)) >= 2
\* The reducer has aborted in the step popped last.
StepAborted == pc = "driver" /\ status = "unsolveable" /\ step # NoStep

\* C24: a singularized step on a zone Z, S being the digits with exactly
\* one place in Z when the step starts: if some cell of Z holds two or more
\* digits of S the step aborts with vals-must-share; otherwise, once its
\* handler has returned Ok, every cell of Z that held a digit d of S holds
\* exactly d and every cell of Z that held no digit of S is unchanged.
C24_ZoneSingularizedMustShare ==
    /\ (StepDone /\ step[1] \in RcsKinds) =>
          /\ ~SharedIn(atStart, step)
          /\ \A c \in RcsCellsOf(step) :
                LET held == Members(atStart.board[c]) \cap SinglesOf(atStart, step) IN
                IF held = {} THEN remaining.board[c] = atStart.board[c]
                ELSE Members(remaining.board[c]) = held /\ Cardinality(held) = 1
    /\ (InStep(RcsKinds) /\ SharedIn(atStart, step)) => calls # <<>>
    /\ (StepAborted /\ step[1] \in RcsKinds /\ SharedIn(atStart, step)) =>
          /\ reason.kind \in {"RowValsMustShare", "ColValsMustShare", "SecValsMustShare"}
          /\ reason.pos = step[2]
\* The reasons of the early return of rcs_vals_singularized.
MustShareKinds == {"RowValsMustShare", "ColValsMustShare", "SecValsMustShare"}
\* The first cell of the zone of s, in the order the zone yields its cells,
\* that holds two or more of the single digits.
FirstShared(tracker, s) ==
    LET shared == {c \in RcsCellsOf(s) :
                     Cardinality(Members(tracker.board[c]) \cap SinglesOf(tracker, s)) >= 2}
    IN CHOOSE c \in shared : \A other \in shared : c <= other
\* C24, amended: with a cell of Z that holds two or more digits of S the
\* step never returns Ok: it aborts with vals-must-share at Z, naming the
\* digits of S in the first such cell, unless an elimination it makes on a
\* cell of Z before that one aborts first; vals-must-share is given in no
\* other case.  The rest is as stated.
C24_ZoneSingularized ==
    /\ (StepDone /\ step[1] \in RcsKinds) =>
          /\ ~SharedIn(atStart, step)
          /\ \A c \in RcsCellsOf(step) :
                LET held == Members(atStart.board[c]) \cap SinglesOf(atStart, step) IN
                IF held = {} THEN remaining.board[c] = atStart.board[c]
                ELSE Members(remaining.board[c]) = held /\ Cardinality(held) = 1
    /\ (InStep(RcsKinds) /\ SharedIn(atStart, step)) => calls # <<>>
    /\ (StepAborted /\ step[1] \in RcsKinds /\ SharedIn(atStart, step)) =>
          LET first == FirstShared(atStart, step) IN
          /\ \A c \in Coords : remaining.board[c] # atStart.board[c]
                                   => c \in RcsCellsOf(step) /\ c < first
          /\ reason.kind \in MustShareKinds =>
                /\ reason.pos = step[2]
                /\ MembersOf[reason.val]
                      = Members(atStart.board[first]) \cap SinglesOf(atStart, step)
    /\ (StepAborted /\ reason.kind \in MustShareKinds) =>
          step[1] \in RcsKinds /\ SharedIn(atStart, step)
\* A singularized step has given a cell its only digit and left alone a cell
\* of the zone with several digits, none of them single in the zone.
C24_Witness ==
    /\ StepDone
    /\ step[1] \in RcsKinds
    /\ \E c \in RcsCellsOf(step) :
          /\ remaining.board[c] # atStart.board[c]
          /\ Members(remaining.board[c]) \subseteq SinglesOf(atStart, step)
    /\ \E c \in RcsCellsOf(step) :
          /\ Cardinality(Members(atStart.board[c])) > 1
          /\ Members(atStart.board[c]) \cap SinglesOf(atStart, step) = {}
\* A singularized step was aborted because a cell holds two single digits.
C24_WitnessAbort ==
    /\ StepAborted
    /\ step[1] \in RcsKinds
    /\ SharedIn(atStart, step)
    /\ reason.kind \in {"RowValsMustShare", "ColValsMustShare", "SecValsMustShare"}
\* A singularized step on a zone with a cell that holds two single digits
\* was aborted by an elimination.
C24_AbortedBefore ==
    /\ StepAborted
    /\ step[1] \in RcsKinds
    /\ SharedIn(atStart, step)
    /\ reason.kind \notin {"RowValsMustShare", "ColValsMustShare", "SecValsMustShare"}

\* The steps on a sector-row or sector-col, the tracker field of the line of
\* such a step, and the cells outside the line in its row or column and in
\* its box.
TripleKinds == {SecRowTripleized, SecColTripleized}
LineFieldOf(s) ==
    IF s[1] \in {SecRowTripleized, RowOnlySec, SecOnlyRow} THEN "sector_rows" ELSE "sector_cols"
LineCellsOf(s) == LineCells(LineFieldOf(s), s[2])
RestOfLineOf(s) ==
    LET some == CHOOSE c \in LineCellsOf(s) : TRUE IN
    {c \in Coords \ LineCellsOf(s) :
        IF LineFieldOf(s) = "sector_rows" THEN RowOf(c) = RowOf(some) ELSE ColOf(c) = ColOf(some)}
RestOfBoxOf(s) ==
    LET some == CHOOSE c \in LineCellsOf(s) : TRUE IN
    {c \in Coords \ LineCellsOf(s) : BoxOf(c) = BoxOf(some)}
\* The digits with a place in the line of s, in the tracker.
AvailOf(tracker, s) == {v \in Vals : tracker[LineFieldOf(s)][s[2]][v] > 0}

\* C25: a Tripleized step on a sector-row or sector-col L, V being the
\* digits available in L when the step starts, never changes a cell of L,
\* and once its handler has returned Ok no digit of V is in a cell of L's
\* row or column outside L or in a cell of L's box outside L.
C25_LineSizeMatch ==
    InStep(TripleKinds) =>
        /\ Cardinality(AvailOf(atStart, step)) = 3
        /\ Cardinality(LineCellsOf(step)) = 3
        /\ Cardinality(RestOfLineOf(step)) = 6 /\ Cardinality(RestOfBoxOf(step)) = 6
        /\ \A c \in LineCellsOf(step) : remaining.board[c] = atStart.board[c]
        /\ calls = <<>> =>
              \A c \in RestOfLineOf(step) \cup RestOfBoxOf(step) :
                  Members(remaining.board[c]) \cap AvailOf(atStart, step) = {}
\* A Tripleized handler has returned Ok after eliminating one of its digits
\* from the rest of the row or column and one from the rest of the box.
C25_Witness ==
    /\ StepDone
    /\ step[1] \in TripleKinds
    /\ \E c \in RestOfLineOf(step) : remaining.board[c] # atStart.board[c]
    /\ \E c \in RestOfBoxOf(step) : remaining.board[c] # atStart.board[c]

\* The hint steps: a line that holds every place of a digit in its row or
\* column, and a line that holds every place of a digit in its box.
OnlyInLineKinds == {RowOnlySec, ColOnlySec}
OnlyInSecKinds == {SecOnlyRow, SecOnlyCol}
\* The digits whose count in the line of s equals their count in the row or
\* column of the line (OnlyInLine) or in its box (OnlyInSec), in the tracker.
UniquesOf(tracker, s) ==
    LET some == CHOOSE c \in LineCellsOf(s) : TRUE
        other == IF s[1] \in OnlyInSecKinds THEN tracker.sectors[BoxOf(some)]
                 ELSE IF LineFieldOf(s) = "sector_rows" THEN tracker.rows[RowOf(some)]
                 ELSE tracker.cols[ColOf(some)]
    IN {v \in Vals : tracker[LineFieldOf(s)][s[2]][v] = other[v]}
\* The cells a hint step eliminates from.
HintCellsOf(s) == IF s[1] \in OnlyInLineKinds THEN RestOfBoxOf(s) ELSE RestOfLineOf(s)

\* C26: a RowOnlySec or ColOnlySec step on a line L removes from the cells
\* of the other two lines of L's box exactly the digits whose count in L
\* equals their count in L's row or column; a SecOnlyRow or SecOnlyCol step
\* removes from the cells of the other two lines of L's row or column exactly
\* the digits whose count in L equals their count in L's box; neither
\* changes a cell of L, nor any other cell.
C26_HintEliminations ==
    InStep(OnlyInLineKinds \cup OnlyInSecKinds) =>
        /\ \A c \in Coords \ HintCellsOf(step) : remaining.board[c] = atStart.board[c]
        /\ \A c \in HintCellsOf(step) :
              /\ Members(remaining.board[c]) \subseteq Members(atStart.board[c])
              /\ (Members(atStart.board[c]) \ Members(remaining.board[c]))
                    \subseteq UniquesOf(atStart, step)
        /\ calls = <<>> =>
              \A c \in HintCellsOf(step) :
                  Members(remaining.board[c])
                     = Members(atStart.board[c]) \ UniquesOf(atStart, step)
\* A hint handler of one of the kinds has returned Ok after an elimination,
\* and left in a cell it walked a digit that is not one of its digits.
HintActed(kinds) ==
    /\ StepDone
    /\ step[1] \in kinds
    /\ \E c \in HintCellsOf(step) :
          /\ remaining.board[c] # atStart.board[c]
          /\ Members(remaining.board[c]) # {}
\* A SecOnlyRow handler has done so.
C26_Witness == HintActed({SecOnlyRow})
\* A RowOnlySec handler has done so.
C26_WitnessOnlyInLine == HintActed({RowOnlySec})

\* The zone of each kind that holds cell c, by the tracker field of the kind.
ZoneOfCell(field, c) ==
    IF field = "rows" THEN RowOf(c)
    ELSE IF field = "cols" THEN ColOf(c)
    ELSE IF field = "sectors" THEN BoxOf(c)
    ELSE IF field = "sector_rows" THEN (RowOf(c) * 3) + (ColOf(c) \div 3)
    ELSE (BoxOf(c) * 3) + (ColOf(c) % 3)
\* The tracker that differs from parent in cell c, set to {d}, and in the
\* counts of the other digits of c, one less in each of the five zones of c.
Clone(parent, c, d) ==
    LET gone == Members(parent.board[c]) \ {d}
        less(field) ==
            [z \in DOMAIN parent[field] |->
                [v \in Vals |->
                    IF z = ZoneOfCell(field, c) /\ v \in gone
                    THEN parent[field][z][v] - 1 ELSE parent[field][z][v]]]
    IN [board |-> [parent.board EXCEPT ![c] = 2 ^ (d - 1)],
        rows |-> less("rows"),
        cols |-> less("cols"),
        sectors |-> less("sectors"),
        sector_rows |-> less("sector_rows"),
        sector_cols |-> less("sector_cols")]
\* The cells with more than one digit.
MultiCells(tracker) == {c \in Coords : Cardinality(MembersOf[tracker.board[c]]) > 1}
\* The entries the driver pushes for a saturated tracker.
Branches(tracker, d0) ==
    LET c == Least(MultiCells(tracker)) IN
    {[depth |-> d0 + 1, tracker |-> Clone(tracker, c, d)] :
        d \in {v \in Members(tracker.board[c]) : ~KnownUnsolveableLaw(Clone(tracker, c, v))}}

\* C27: when reduce has saturated on a tracker that is not solved, the
\* driver pushes, with depth + 1, one clone for each digit d of the first
\* cell c (in flat index order) with more than one digit, unless the clone
\* is known-unsolveable: the clone has c at {d}, the counts of the other
\* digits of c one less in the row, column, box, sector-row and sector-col
\* of c, and is the parent elsewhere; the rest of the stack is untouched.
C27_Branching ==
    [][(pc = "reduce" /\ calls = <<>> /\ queue.pending = <<>> /\ pc' = "driver") =>
          /\ MultiCells(remaining) # {}
          /\ Len(stack') = Len(stack) + Cardinality(Branches(remaining, depth))
          /\ SubSeq(stack', 1, Len(stack)) = stack
          /\ {stack'[i] : i \in (Len(stack) + 1)..Len(stack')} = Branches(remaining, depth)
      ]_vars
\* The driver has pushed the clones of a saturated tracker whose first cell
\* with several digits is not the first blank cell of the input: three or
\* more clones, on a stack that held an entry already.
C27_Witness ==
    /\ pc = "driver"
    /\ status = "ok"
    /\ step # NoStep
    /\ MultiCells(remaining) # {}
    /\ Least(MultiCells(remaining)) # Least(BlankCells(input))
    /\ Cardinality(Branches(remaining, depth)) >= 3
    /\ Len(stack) > Cardinality(Branches(remaining, depth))
    /\ \A e \in Branches(remaining, depth) : \E i \in DOMAIN stack : stack[i] = e
\* A clone was dropped as known-unsolveable.
C27_CloneDropped ==
    /\ pc = "driver"
    /\ status = "ok"
    /\ step # NoStep
    /\ MultiCells(remaining) # {}
    /\ Cardinality(Branches(remaining, depth))
          < Cardinality(Members(remaining.board[Least(MultiCells(remaining))]))

\* C28: the depth paired with a tracker on the stack, and the depth of the
\* tracker being reduced, never exceed the number of blank cells of the
\* input board, hence never 81; such a tracker has at least depth cells
\* fewer with several digits than the input has blank cells.
C28_DepthBounded ==
    /\ depth <= Cardinality(BlankCells(input))
    /\ \A i \in DOMAIN stack :
          /\ stack[i].depth <= Cardinality(BlankCells(input))
          /\ stack[i].depth <= Cardinality(Coords)
          /\ stack[i].depth + Cardinality(MultiCells(stack[i].tracker))
                <= Cardinality(BlankCells(input))
    /\ Cardinality(Coords) = RowWidth * RowWidth
\* A tracker is on the stack with a depth of 3 or more, on an input that has
\* cells filled in.
C28_Witness ==
    /\ BlankCells(input) # Coords
    /\ \E i \in DOMAIN stack : stack[i].depth >= 3

\* The records of the tracer and the last of them.
Records == tracer.records
LastRecord == Records[Len(Records)]
\* The steps the running call of reduce has popped, in order.
StepsPopped ==
    LET visits == {i \in DOMAIN log : log[i].ev = "visit"}
        last == CHOOSE i \in visits : \A j \in visits : j <= i
    IN [i \in 1..(Len(log) - last) |-> log[last + i].at]

\* C29: the records of one call of reduce: the first is InitialState with
\* the tracker reduce was given, made before any step; a step whose handler
\* returns Ok after eliminating something appends one record with the
\* reason of its kind at its target and the cells as they are then; an abort
\* appends one Unsolveable record; a step that eliminates nothing and does
\* not abort appends none; reduce has returned unsolveable exactly when the
\* last record is Unsolveable, and no record follows an Unsolveable one.
C29_TraceProtocol ==
    [][/\ (tracer'.kind = "vec" /\ pc' \in {"reduce", "driver"} /\ Records' # <<>>) =>
             /\ Records'[1] = [reason |-> InitialState, remaining |-> StartTracker'.board]
             /\ \A i \in 2..Len(Records') : Records'[i].reason.kind # "InitialState"
             /\ \A i \in 1..(Len(Records') - 1) : Records'[i].reason.kind # "Unsolveable"
             /\ (status' = "unsolveable") = (Records'[Len(Records')].reason.kind = "Unsolveable")
       /\ (tracer.kind = "vec" /\ pc = "driver" /\ pc' = "reduce") => Len(Records') = 1
       /\ (tracer.kind = "vec" /\ pc = "reduce") =>
             LET one == Len(Records') = Len(Records) + 1
                        /\ SubSeq(Records', 1, Len(Records)) = Records
                 last == Records'[Len(Records')]
                 done == pc' = "reduce" /\ calls' = <<>>
                 aborted == pc' = "driver" /\ status' = "unsolveable"
             IN /\ (done /\ step' # step) => Records' = Records
                /\ (done /\ step' = step /\ remaining' # remaining) =>
                      /\ one
                      /\ last.reason.kind = DeducedKind[step[1]]
                      /\ last.reason.pos = step[2]
                      /\ last.remaining = remaining'.board
                /\ aborted =>
                      /\ one
                      /\ last.reason.kind = "Unsolveable"
                      /\ last.reason.why = reason'.kind
                      /\ last.remaining = remaining'.board
                /\ ~(done /\ step' = step /\ remaining' # remaining) /\ ~aborted
                      => Records' = Records
      ]_vars
\* reduce has returned unsolveable after a step that eliminated nothing, two
\* steps that appended a record, and the abort.
C29_Witness ==
    /\ tracer.kind = "vec"
    /\ pc = "driver"
    /\ status = "unsolveable"
    /\ Len(Records) >= 4
    /\ LastRecord.reason.kind = "Unsolveable"
    /\ Len(StepsPopped) >= Len(Records)
\* reduce has saturated with a record for each kind of deduction.
C29_WitnessSaturated ==
    /\ tracer.kind = "vec"
    /\ Saturated
    /\ \A k \in {"CoordNeighbors", "UniqueInRow", "SecRowTriple", "RowOnlySec"} :
          \E i \in DOMAIN Records : Records[i].reason.kind = k

\* The steps enqueued once: those on a cell and the size matches.
OnceKinds == {CoordSingularized} \cup TripleKinds
\* The steps the running call of reduce has had in its heap so far.
Enqueued == Pending(queue) \cup Range(StepsPopped)

\* C30: within one call of reduce a CoordSingularized step is enqueued at
\* most once for each cell and a Tripleized step at most once for each
\* sector-row and sector-col, the seeding included: such a step enters the
\* heap only if it has not been in it before, and the push that follows a
\* cell becoming singular, or a line being left with 3 digits, finds the step
\* neither pending nor popped.
C30_EnqueuedOnce ==
    [][/\ pc = "reduce" =>
             \A s \in Pending(queue') \ Pending(queue) :
                 s[1] \in OnceKinds => s \notin Enqueued
       /\ pc' = "reduce" => Len(queue'.pending) = Cardinality(Pending(queue'))
       /\ AtEliminate =>
             /\ (remaining'.board[ElimCoord] # remaining.board[ElimCoord]
                    /\ Cardinality(Members(remaining'.board[ElimCoord])) = 1)
                   => <<CoordSingularized, ElimCoord>> \notin Enqueued
             /\ \A field \in LineFields :
                   (remaining'[field][ElimLine(field)][ElimVal] = 0
                      /\ remaining[field][ElimLine(field)][ElimVal] = 1
                      /\ NumAvailable(remaining'[field][ElimLine(field)]) = 3)
                   => VisitSizeMatch(field, ElimLine(field)) \notin Enqueued
      ]_vars
\* A step of one of the kinds is pending that the running call of reduce has
\* popped before.
EnqueuedAgain(kinds) ==
    /\ pc = "reduce"
    /\ \E s \in Pending(queue) \cap Range(StepsPopped) : s[1] \in kinds
\* A hint step on a line and its box is enqueued again, in a call that has
\* popped a cell step and a size match.
C30_Witness ==
    /\ EnqueuedAgain(OnlyInSecKinds)
    /\ \E s \in Range(StepsPopped) : s[1] = CoordSingularized
    /\ \E s \in Range(StepsPopped) : s[1] \in TripleKinds
\* A zone step, and a hint step on a line and its row or column, is enqueued
\* again.
C30_WitnessZone == EnqueuedAgain(RcsKinds)
C30_WitnessOnlyInLine == EnqueuedAgain(OnlyInLineKinds)

\* The cell steps pending in q.
PendingCells(q) == {s[2] : s \in {s \in Pending(q) : s[1] = CoordSingularized}}

\* C31: whenever a CoordSingularized step on a cell c is popped, c holds
\* exactly one value and get_single().unwrap() does not panic; from the
\* enqueue to the pop, as long as the reducer has not aborted, the cell of
\* every pending CoordSingularized step holds exactly one value.
C31_SingleAtPop ==
    [][/\ (AtPop /\ step'[1] = CoordSingularized) =>
             /\ Cardinality(MembersOf[remaining.board[step'[2]]]) = 1
             /\ pc' = "reduce"
       /\ pc' = "reduce" =>
             \A c \in PendingCells(queue') : Cardinality(MembersOf[remaining'.board[c]]) = 1
      ]_vars
\* A CoordSingularized step is popped on a cell that held several values when
\* the reducer was built, after a step that eliminated from other cells.
C31_Witness ==
    /\ pc = "reduce"
    /\ step[1] = CoordSingularized
    /\ log[Len(log)].ev = "step"
    /\ log[Len(log)].at = step
    /\ Cardinality(MembersOf[StartTracker.board[step[2]]]) > 1
    /\ Cardinality(MembersOf[remaining.board[step[2]]]) = 1
\* An elimination that empties a cell whose step is pending aborts the
\* reducer.
C31_WitnessEmptied ==
    /\ pc = "driver"
    /\ status = "unsolveable"
    /\ reason.kind = "Empty"
    /\ reason.pos \in PendingCells(queue)

\* The message of the panic of eliminate_from_rcs.
PreviouslyEliminated == "Value was previously eliminated but reduction did not stop"

\* C32: at every call of eliminate that finds its value d in the cell, the
\* counts of d in the row, the column and the sector of the cell are at least
\* 1, and eliminate_from_rcs never takes its None branch: the reducer never
\* panics with "Value was previously eliminated but reduction did not stop",
\* on the tracker built from the input and on the clones of specify_one.
C32_CountsPositive ==
    [][/\ AtEliminate =>
             /\ ElimVal \in MembersOf[remaining.board[ElimCoord]]
             /\ \A field \in {"rows", "cols", "sectors"} :
                   remaining[field][ElimZone(field)][ElimVal] >= 1
       /\ reason'.kind # PreviouslyEliminated
      ]_vars
\* An elimination on a tracker that descends from a clone of specify_one is
\* about to take the last place of its value in the row, the column or the
\* sector of the cell.
C32_Witness ==
    /\ AtEliminate
    /\ depth >= 1
    /\ \E field \in {"rows", "cols", "sectors"} : remaining[field][ElimZone(field)][ElimVal] = 1
\* The same on a tracker built from a board that is known to be unsolveable.
C32_WitnessContradictory ==
    /\ AtEliminate
    /\ depth = 0
    /\ KnownUnsolveable(StartTracker)
    /\ \E field \in {"rows", "cols", "sectors"} : remaining[field][ElimZone(field)][ElimVal] = 1

\* The Tripleized steps pending in q.
PendingTriples(q) == {s \in Pending(q) : s[1] \in TripleKinds}

\* C33: whenever a SecRowTripleized or SecColTripleized step on a line L is
\* popped, exactly 3 digits have a positive count in L and the debug_assert
\* of the handler holds; from the enqueue to the pop, as long as the reducer
\* has not aborted, the line of every pending Tripleized step has exactly 3
\* digits available.
C33_ThreeAtPop ==
    [][/\ (AtPop /\ step'[1] \in TripleKinds) =>
             /\ NumAvailable(remaining[LineFieldOf(step')][step'[2]]) = 3
             /\ pc' = "reduce"
       /\ pc' = "reduce" =>
             \A s \in PendingTriples(queue') : Cardinality(AvailOf(remaining', s)) = 3
      ]_vars
\* A Tripleized step is popped on a line that had more than 3 digits
\* available when the reducer was built.
C33_Witness ==
    /\ pc = "reduce"
    /\ step[1] \in TripleKinds
    /\ log[Len(log)].ev = "step"
    /\ log[Len(log)].at = step
    /\ Cardinality(AvailOf(StartTracker, step)) > 3
    /\ Cardinality(AvailOf(remaining, step)) = 3
\* An elimination that leaves a line whose Tripleized step is pending with
\* fewer than 3 digits aborts the reducer.
C33_WitnessTooFew ==
    /\ pc = "driver"
    /\ status = "unsolveable"
    /\ reason.kind \in {"SecRowTooFewVals", "SecColTooFewVals"}
    /\ \E s \in PendingTriples(queue) :
          /\ s[2] = reason.pos
          /\ (s[1] = SecRowTripleized) = (reason.kind = "SecRowTooFewVals")

\* The cells of a tracker with more than one value, and with exactly one.
SeveralAt(tracker) == {c \in Coords : Cardinality(MembersOf[tracker.board[c]]) > 1}
SingleAt(tracker) == {c \in Coords : Cardinality(MembersOf[tracker.board[c]]) = 1}

\* C34: whenever reduce saturates on a tracker that is not solved, some cell
\* holds more than one value, specify_one finds its cell and its unwrap
\* never panics; a saturated tracker whose cells are all singular is solved,
\* and the board read off it is a valid grid.
C34_SaturatedUnsolvedHasChoice ==
    /\ reason.kind # "specify_one"
    /\ (Saturated /\ ~TrackerIsSolved(remaining)) =>
          /\ SeveralAt(remaining) # {}
          /\ FirstMulti(remaining) \in SeveralAt(remaining)
    /\ (Saturated /\ SingleAt(remaining) = Coords) =>
          /\ TrackerIsSolved(remaining)
          /\ ValidBoard(IntoBoard(remaining))
\* reduce saturated, on a tracker that descends from a clone, without
\* solving it: solve is about to branch again.
C34_Witness ==
    /\ Saturated
    /\ depth >= 1
    /\ ~TrackerIsSolved(remaining)
    /\ SeveralAt(remaining) # {}
\* reduce saturated on a clone with every cell singular.
C34_WitnessSolved ==
    /\ Saturated
    /\ depth >= 1
    /\ SingleAt(remaining) = Coords
    /\ TrackerIsSolved(remaining)

\* The valid completions of a board that the reference search finds, at
\* most 3 of them: all of them when it finds fewer than 3.
KnownCompletions(b) ==
    LET tests == SelectSeq(<<Expected1, Expected2, Expected3>>, LAMBDA k : IsCompletionOf(k, b))
    IN IF Len(tests) >= 2 THEN tests
       ELSE IF NoPinnedDuplicate(b) THEN Completions(b, 3)
       ELSE <<>>
\* solve run on the test boards next to the reference search.
InitSound ==
    \E board \in TestBoards :
        /\ InitWith(board, NopDeductiveTracer)
        /\ completions = KnownCompletions(board)
        /\ remaining = TrackerAllAvailable
        /\ iter = AvailSetIntoIter(AvailSetNone)
        /\ arg = NoArg
SpecSound == InitSound /\ [][Next]_vars

\* A board places in every cell a value the tracker still has there.
Compatible(b, tracker) == \A c \in Coords : b[c] \in MembersOf[tracker.board[c]]
\* The known completions of input that are compatible with a tracker.
KnownCompatible(tracker) ==
    {i \in DOMAIN completions : Compatible(completions[i], tracker)}
\* The cells of a tracker that are settled, as a board.
PinsOf(tracker) == IntoBoard(tracker)

\* C35: deduction is sound.  The tracker built from the input is compatible
\* with every valid completion of the input; every step of reduce keeps the
\* valid completions compatible with the tracker, and no elimination removes
\* the value a compatible valid completion has in the cell; reduce returns
\* unsolveable only on a tracker with no compatible valid completion, that
\* is when no valid grid agrees with the settled cells of the tracker.
C35_DeductionSound ==
    [][/\ (pc = "driver" /\ pc' = "reduce" /\ depth' = 0) =>
             KnownCompatible(remaining') = DOMAIN completions
       /\ (pc = "reduce" /\ pc' = "reduce") =>
             KnownCompatible(remaining') = KnownCompatible(remaining)
       /\ AtEliminate =>
             \A i \in KnownCompatible(remaining) : completions[i][ElimCoord] # ElimVal
       /\ (pc = "reduce" /\ status' = "unsolveable") =>
             /\ KnownCompatible(remaining) = {}
             /\ NoPinnedDuplicate(PinsOf(remaining)) => Completions(PinsOf(remaining), 1) = <<>>
      ]_vars
\* An elimination on a clone that some known completion of the input is
\* compatible with, from a cell that holds more than two values.
C35_Witness ==
    /\ AtEliminate
    /\ depth >= 1
    /\ KnownCompatible(remaining) # {}
    /\ Cardinality(MembersOf[remaining.board[ElimCoord]]) > 2
\* reduce returned unsolveable on a clone, for an input that has a valid
\* completion.
C35_WitnessUnsolveable ==
    /\ pc = "driver"
    /\ status = "unsolveable"
    /\ depth >= 1
    /\ completions # <<>>

\* The five counter maps of a tracker and their zones.
CounterFields == {"rows", "cols", "sectors", "sector_rows", "sector_cols"}
\* Tracker a has no value in a cell that b has not there, and no count above
\* the count of b.
TrackerLe(a, b) ==
    /\ \A c \in Coords : MembersOf[a.board[c]] \subseteq MembersOf[b.board[c]]
    /\ \A field \in CounterFields :
          \A z \in DOMAIN b[field] : \A v \in Vals : a[field][z][v] <= b[field][z][v]
\* The entries a step has pushed on the stack.
Pushed == {i \in DOMAIN stack' : i > Len(stack)}

\* C36: from the construction of a reducer to its end every step leaves each
\* cell with a subset of its values and each count of each zone at most what
\* it was; every clone solve pushes has, cell by cell and count by count, at
\* most what the tracker it was cloned from has; the entries of the stack are
\* not touched afterwards, and the tracker a reducer starts from is the one
\* that was pushed.
C36_Monotone ==
    [][/\ pc = "reduce" => TrackerLe(remaining', remaining)
       /\ pc = "reduce" =>
             /\ \A i \in Pushed : TrackerLe(stack'[i].tracker, remaining)
             /\ SubSeq(stack', 1, Len(stack)) = stack
       /\ (pc = "driver" /\ pc' = "reduce") =>
             /\ remaining' = stack[Len(stack)].tracker
             /\ stack' = SubSeq(stack, 1, Len(stack) - 1)
      ]_vars
\* solve has pushed clones of a tracker that reduce had taken values from, and
\* each clone has lost values of a cell and counts of its zones.
C36_Witness ==
    /\ pc = "driver"
    /\ status = "ok"
    /\ depth >= 1
    /\ StartTracker # remaining
    /\ Len(stack) >= 2
    /\ \A i \in {Len(stack) - 1, Len(stack)} :
          /\ stack[i].depth = depth + 1
          /\ TrackerLe(stack[i].tracker, remaining)
          /\ \E c \in Coords : stack[i].tracker.board[c] # remaining.board[c]
          /\ \E z \in Rows : stack[i].tracker.rows[z] # remaining.rows[z]

\* C37: a tracker on which the loop of reduce found the queue empty is not
\* known-unsolveable: no cell of it is empty and every digit has a positive
\* count in every row, column and sector; and the tracker its reducer
\* started from was not known-unsolveable either, so a reducer that starts
\* from a known-unsolveable tracker (one built from a contradictory board)
\* does not saturate, it aborts.
C37_SaturatedNotKnownUnsolveable ==
    Saturated =>
        /\ ~KnownUnsolveable(remaining)
        /\ \A c \in Coords : MembersOf[remaining.board[c]] # {}
        /\ \A field \in {"rows", "cols", "sectors"} :
              \A z \in DOMAIN remaining[field] : \A v \in Vals : remaining[field][z][v] >= 1
        /\ ~KnownUnsolveable(StartTracker)
\* reduce saturated after eliminations, on a tracker with a digit left with
\* one place in a row and cells left with several values.
C37_Witness ==
    /\ Saturated
    /\ StartTracker # remaining
    /\ SeveralAt(remaining) # {}
    /\ \E z \in Rows : \E v \in Vals : remaining.rows[z][v] = 1
\* The reducer of a tracker that was known-unsolveable when it started has
\* aborted.
C37_WitnessContradictory ==
    /\ pc = "driver"
    /\ status = "unsolveable"
    /\ KnownUnsolveable(StartTracker)
    /\ \A c \in Coords : MembersOf[StartTracker.board[c]] # {}


\* C38: when reduce has saturated on a tracker that is not solved, none of
\* the copies specify_one makes for the digits of the first cell c with
\* several digits is known-unsolveable, so none is filtered out: the driver
\* pushes exactly as many trackers as c has digits, the copy for the i-th
\* digit in ascending order at the i-th new place of the stack.
C38_NoCloneDropped ==
    [][(Saturated /\ ~TrackerIsSolved(remaining) /\ pc' = "driver") =>
          LET c == FirstMulti(remaining)
              avail == remaining.board[c]
              vals == AvailSetVals(avail)
          IN /\ c # -1
             /\ Len(vals) = AvailSetLen(avail)
             /\ Len(vals) = Cardinality(MembersOf[avail])
             /\ \A i \in DOMAIN vals :
                   ~KnownUnsolveable(SpecifyCopy(remaining, c, avail, vals[i]))
             /\ Len(stack') = Len(stack) + Len(vals)
             /\ \A i \in DOMAIN vals :
                   stack'[Len(stack) + i].tracker = SpecifyCopy(remaining, c, avail, vals[i])
      ]_vars
\* The driver has just pushed the copies of a tracker that saturated at
\* depth 1 or more, one for each of the digits of the cell, and one of the
\* copies took the last but one place of a digit in the row of the cell.
C38_Witness ==
    /\ pc = "driver"
    /\ status = "ok"
    /\ depth >= 1
    /\ queue.pending = <<>>
    /\ FirstMulti(remaining) # -1
    /\ LET c == FirstMulti(remaining)
           n == AvailSetLen(remaining.board[c])
       IN /\ Len(stack) >= n
          /\ \A i \in 1..n :
                /\ stack[Len(stack) - n + i].depth = depth + 1
                /\ AvailSetIsSingle(stack[Len(stack) - n + i].tracker.board[c])
          /\ \E i \in 1..n : \E v \in Vals :
                /\ remaining.rows[CoordRow(c)][v] = 2
                /\ stack[Len(stack) - n + i].tracker.rows[CoordRow(c)][v] = 1


\* a comes before b when the boards are read cell by cell in flat index
\* order: the first cell where they differ has the smaller value in a.
LexLess(a, b) ==
    \E c \in Coords : a[c] < b[c] /\ \A other \in 0..(c - 1) : a[other] = b[other]
\* a and b were copied from one tracker at one branch, a for a smaller digit
\* than b: their boards differ in one cell only, singular in both.
SiblingBelow(a, b) ==
    LET differ == {c \in Coords : a.board[c] # b.board[c]} IN
    /\ Cardinality(differ) = 1
    /\ \A c \in differ :
          /\ AvailSetIsSingle(a.board[c])
          /\ AvailSetIsSingle(b.board[c])
          /\ AvailSetGetSingle(a.board[c]) < AvailSetGetSingle(b.board[c])
\* From the bottom of the stack to its top the depths do not go down, and
\* an entry of the depth of the entry above it is a sibling of it with a
\* smaller digit.
StackOrdered(stk) ==
    \A i \in 1..(Len(stk) - 1) :
        \/ stk[i].depth < stk[i + 1].depth
        \/ /\ stk[i].depth = stk[i + 1].depth
           /\ SiblingBelow(stk[i].tracker, stk[i + 1].tracker)

\* C39: the search is last-in-first-out.  The driver pops the entry pushed
\* last and leaves the others; a branch pushes the copies in ascending order
\* of their digit on top of the others, so the copy for the largest digit of
\* the cell is the next to be popped; the entries waiting on the stack are
\* never deeper than the ones above them, those of one depth are siblings
\* with the larger digit on top, and while a tracker is reduced every
\* waiting entry is either less deep or a sibling of it with a smaller
\* digit: all that descends from a copy is popped before a sibling with a
\* smaller digit is.  Hence the board returned is the valid completion that
\* comes last when boards are read cell by cell in flat index order.
C39_LargestDigitFirst ==
    [][/\ (pc = "driver" /\ pc' = "reduce") =>
             /\ remaining' = stack[Len(stack)].tracker
             /\ depth' = stack[Len(stack)].depth
             /\ stack' = SubSeq(stack, 1, Len(stack) - 1)
       /\ (Saturated /\ pc' = "driver") =>
             LET c == FirstMulti(remaining)
                 top == stack'[Len(stack')]
             IN /\ SubSeq(stack', 1, Len(stack)) = stack
                /\ Len(stack') > Len(stack)
                /\ top.depth = depth + 1
                /\ AvailSetGetSingle(top.tracker.board[c])
                      = Greatest(MembersOf[remaining.board[c]])
                /\ \A i \in (Len(stack) + 1)..(Len(stack') - 1) :
                      SiblingBelow(stack'[i].tracker, stack'[i + 1].tracker)
       /\ StackOrdered(stack')
       /\ (pc = "driver" /\ pc' = "reduce") =>
             \A i \in DOMAIN stack' :
                 \/ stack'[i].depth < depth'
                 \/ /\ stack'[i].depth = depth'
                    /\ SiblingBelow(stack'[i].tracker, remaining')
       /\ (pc = "reduce" /\ pc' = "reduce") => UNCHANGED <<stack, depth>>
       /\ (pc = "reduce" /\ pc' = "driver" /\ ~Saturated) => UNCHANGED <<stack, depth>>
       /\ (pc' = "done" /\ result'.some) =>
             /\ \A i \in DOMAIN completions : ~LexLess(result'.board, completions[i])
             /\ Len(completions) < 3 =>
                   \E i \in DOMAIN completions : result'.board = completions[i]
      ]_vars
\* solve has returned on an input with exactly two valid completions, after
\* guessing: the board returned is the one that comes last of the two.
C39_Witness ==
    /\ pc = "done"
    /\ result.some
    /\ Len(completions) = 2
    /\ \E i \in DOMAIN completions : LexLess(completions[i], result.board)
    /\ \E i \in DOMAIN log : log[i].ev = "visit" /\ log[i].depth >= 1
\* A tracker that descends from a copy is being reduced while a sibling of
\* that copy with a smaller digit waits on the stack.
C39_WitnessSibling ==
    /\ pc = "reduce"
    /\ step = NoStep
    /\ depth >= 2
    /\ \E k \in DOMAIN stack :
          /\ stack[k].depth < depth
          /\ \E i \in DOMAIN log :
                /\ log[i].ev = "visit"
                /\ log[i].depth = stack[k].depth
                /\ SiblingBelow(stack[k].tracker, log[i].at)
\* A copy is being reduced after its sibling with a larger digit was.
C39_WitnessBacktrack ==
    /\ pc = "reduce"
    /\ step = NoStep
    /\ depth >= 1
    /\ \E i \in DOMAIN log :
          /\ log[i].ev = "visit"
          /\ log[i].depth = depth
          /\ SiblingBelow(remaining, log[i].at)


\* C40: in every state of a call of reduce the dedup set is the set of the
\* steps in the heap and the heap holds no step twice; a push of a step that
\* is pending leaves the queue as it is; the step a pop returns was in the
\* dedup set (the assertion of pop holds), is in neither the heap nor the
\* dedup set afterwards, and a push of it then puts it in the heap again.
C40_DedupIsPending ==
    [][/\ queue'.dedup = Pending(queue')
       /\ Len(queue'.pending) = Cardinality(Pending(queue'))
       /\ \A s \in Pending(queue') : QueuePush(queue', s) = queue'
       /\ AtPop =>
             /\ QueuePop(queue).ok
             /\ step' \in queue.dedup
             /\ step' \notin Pending(queue')
             /\ step' \notin queue'.dedup
             /\ QueuePush(queue', step').pending = Append(queue'.pending, step')
             /\ QueuePush(queue', step').dedup = queue.dedup
       /\ reason' # Panicked("pop")
      ]_vars
\* A step that the running call of reduce has popped is pending again, next
\* to other steps, and the dedup set is the set of the pending steps.
C40_Witness ==
    /\ pc = "reduce"
    /\ Len(queue.pending) >= 2
    /\ queue.dedup = Pending(queue)
    /\ Pending(queue) \cap Range(StepsPopped) # {}
\* The next elimination leaves a digit with one place in the row of a cell
\* with three digits or more, and the step of that row is pending: the push
\* that follows finds it in the dedup set.
C40_WitnessPending ==
    /\ AtEliminate
    /\ ElimVal \in MembersOf[remaining.board[ElimCoord]]
    /\ Cardinality(MembersOf[remaining.board[ElimCoord]]) >= 3
    /\ remaining.rows[CoordRow(ElimCoord)][ElimVal] = 2
    /\ <<RowValsSingularized, CoordRow(ElimCoord)>> \in Pending(queue)
====
